---- MODULE Spec2Model ----
(***************************************************************************)
(* Verification model of the neomacs display core:                         *)
(*   - render_thread/multi_window.rs : MultiWindowManager, WindowState     *)
(*   - layout/engine.rs              : LayoutEngine::layout_window         *)
(*   - layout/emacs_types.rs         : gap_buffer_copy_text                *)
(* Each subsystem has its own specification over its own variables; the    *)
(* variables of the other subsystems stay at their initial values.         *)
(***************************************************************************)
EXTENDS Integers, Sequences, FiniteSets, TLC

(***************************************************************************)
(* Bounds of the model.                                                    *)
(***************************************************************************)
\* Emacs frame ids are 0..MaxFrameId; 0 is the primary window's frame.
MaxFrameId == 2
\* Physical pixel dimensions (reported by the OS, resized to) are 0..MaxSize.
MaxSize == 1
\* The pending-creates queue holds at most MaxCreates requests.
MaxCreates == 2
\* The pending-destroys queue holds at most MaxDestroys requests.
MaxDestroys == 1
\* A buffer's text has at most MaxLen bytes.
MaxLen == 3
\* The gap of a buffer has at most MaxGap bytes.
MaxGap == 2
\* A buffer laid out has at most MaxChars characters.
MaxChars == 3
\* The text area of a window is at most MaxCols columns wide and MaxRows rows high.
MaxCols == 3
MaxRows == 2
\* MaxThreads threads call into the offsets singleton, MaxCalls times each.
MaxThreads == 2
MaxCalls == 2
\* Window graphs of every shape have at most MaxWindows windows; the wide
\* trees have up to MaxOver children more than the walk's stack holds.
MaxWindows == 3
MaxOver == 1
Unit == 4
MaxHeight == 3
IsizeBits == 4
MaxScrolls == 2
EaseSteps == 10
MaxOutside == 2

FrameIds == 1..MaxFrameId
Sizes == 0..MaxSize
\* winit WindowIds the OS can hand out; one more than windows that can be alive.
WinitIds == 1..(MaxFrameId + 1)
\* Distinguishable glyph-buffer contents of successive frames.
Contents == {"old", "new"}

(***************************************************************************)
(* State of the multi-window manager.                                      *)
(***************************************************************************)
VARIABLES
    windows,          \* MultiWindowManager.windows: frame id -> WindowState
    winit_to_emacs,   \* MultiWindowManager.winit_to_emacs: WindowId -> frame id
    pending_creates,  \* MultiWindowManager.pending_creates: Seq(PendingWindow)
    pending_destroys, \* MultiWindowManager.pending_destroys: Seq(frame id)
    ret,              \* what the route_frame call made last returned
    mwFailed,         \* frame ids whose creation failed in the last process_creates
    mwLatest,         \* per window: the root frame and the overlays routed to it last
    mwCoalesced       \* some routed frame replaced one its window still held

mwVars == <<windows, winit_to_emacs, pending_creates, pending_destroys, ret,
            mwFailed, mwLatest, mwCoalesced>>

(***************************************************************************)
(* State of the other subsystems, one record each.                         *)
(***************************************************************************)
VARIABLES
    gb,    \* a host buffer's text, one gap_buffer_copy_text call and its result
    lay,   \* one window's parameters and text, and layout_window's progress
    ofs,   \* the OFFSETS singleton, the host's table and the threads calling in
    wt,    \* a host frame's window graph and one frame_window_count call
    anim,  \* a CursorAnimator and the result of its last update
    fx,    \* a CursorAnimator's effects, blink and settings, and the clock
    bt,    \* a BufferTransitionAnimator and the clock
    grid,  \* a CharacterGrid one cell wide
    cg,    \* a CharacterGrid with columns, for resize and scroll_region
    wk,    \* a WorkerRuntime, its worker threads and the threads calling it
    md,    \* a ModeRegistry
    bl     \* the textures of one apply_blur_from_a call

vars == <<windows, winit_to_emacs, pending_creates, pending_destroys, ret,
          mwFailed, mwLatest, mwCoalesced, gb, lay, ofs, wt, anim, fx, bt, grid,
          cg, wk, md, bl>>

\* What the multi-window manager leaves alone.
more == <<cg, wk, md, bl>>
rest == <<fx, bt, grid, more>>
mwOthers == <<gb, lay, ofs, wt, anim, rest>>

\* The values these keep while another subsystem runs.
GbIdle == [pc |-> "idle"]
LayIdle == [pc |-> "idle"]
OfsIdle == [pc |-> "idle"]
WtIdle == [pc |-> "idle"]
AnimIdle == [pc |-> "idle"]
FxIdle == [pc |-> "idle"]
BtIdle == [pc |-> "idle"]
GridIdle == [pc |-> "idle"]
CgIdle == [pc |-> "idle"]
WkIdle == [pc |-> "idle"]
MdIdle == [pc |-> "idle"]
BlIdle == [pc |-> "idle"]
MoreIdle == cg = CgIdle /\ wk = WkIdle /\ md = MdIdle /\ bl = BlIdle
RestIdle == fx = FxIdle /\ bt = BtIdle /\ grid = GridIdle /\ MoreIdle

\* FrameGlyphBuffer, as far as routing reads it: frame_id, parent_id, and its content.
FrameGlyphBuffers == [frame_id : 0..MaxFrameId, parent_id : 0..MaxFrameId, content : Contents]

\* The frames of one content only.
FramesOf(c) == {fr \in FrameGlyphBuffers : fr.content = c}

\* PendingWindow. The requested width, height and title are only handed to the
\* OS (with_inner_size, with_title); the size the OS then reports is its own.
PendingWindow(f) == [emacs_frame_id |-> f]

\* Option<FrameGlyphBuffer>: None is <<>>, Some(fr) is <<fr>>.
None == <<>>
Some(fr) == <<fr>>

\* The empty child-frame map of ChildFrameManager::new().
ChildFrameManagerNew == <<>>

\* ChildFrameManager::update_frame: install the overlay under its frame id.
UpdateFrame(cf, fr) ==
    [c \in DOMAIN cf \cup {fr.frame_id} |-> IF c = fr.frame_id THEN fr ELSE cf[c]]

\* Function update that may extend the domain (HashMap::insert).
MapInsert(m, k, v) == [x \in DOMAIN m \cup {k} |-> IF x = k THEN v ELSE m[x]]

\* HashMap::remove.
MapRemove(m, k) == [x \in DOMAIN m \ {k} |-> m[x]]

\* mwLatest restricted to the windows alive, new windows having received nothing.
LatestFor(wins, latest) ==
    [f \in DOMAIN wins |-> IF f \in DOMAIN latest THEN latest[f]
                           ELSE [root |-> None, child |-> <<>>]]

MWInit ==
    /\ gb = GbIdle
    /\ lay = LayIdle
    /\ ofs = OfsIdle /\ wt = WtIdle /\ anim = AnimIdle /\ RestIdle
    /\ windows = <<>>
    /\ winit_to_emacs = <<>>
    /\ pending_creates = <<>>
    /\ pending_destroys = <<>>
    /\ ret = FALSE
    /\ mwFailed = {}
    /\ mwLatest = <<>>
    /\ mwCoalesced = FALSE

(***************************************************************************)
(* WindowState::handle_resize                                              *)
(***************************************************************************)
HandleResizeClearsDirtyMutant(ws, width, height) ==
    IF width = 0 \/ height = 0
    THEN [ws EXCEPT !.frame_dirty = FALSE]
    ELSE [ws EXCEPT !.width = width, !.height = height,
                    !.cfg_width = width, !.cfg_height = height,
                    !.frame_dirty = TRUE]

HandleResize(ws, width, height) ==
    IF width = 0 \/ height = 0
    THEN ws
    ELSE [ws EXCEPT !.width = width, !.height = height,
                    !.cfg_width = width, !.cfg_height = height,
                    !.frame_dirty = TRUE]

\* The event loop resizes the window of frame f (looked up with get_mut).
DoHandleResize(f, width, height) ==
    /\ f \in DOMAIN windows
    /\ windows' = [windows EXCEPT ![f] = HandleResize(windows[f], width, height)]
    /\ UNCHANGED <<winit_to_emacs, pending_creates, pending_destroys, ret,
                   mwFailed, mwLatest, mwCoalesced, mwOthers>>

(***************************************************************************)
(* MultiWindowManager::request_create / request_destroy                    *)
(***************************************************************************)
RequestCreate(f) ==
    /\ Len(pending_creates) < MaxCreates
    /\ pending_creates' = Append(pending_creates, PendingWindow(f))
    /\ UNCHANGED <<windows, winit_to_emacs, pending_destroys, ret,
                   mwFailed, mwLatest, mwCoalesced, mwOthers>>

RequestDestroy(f) ==
    /\ Len(pending_destroys) < MaxDestroys
    /\ pending_destroys' = Append(pending_destroys, f)
    /\ UNCHANGED <<windows, winit_to_emacs, pending_creates, ret,
                   mwFailed, mwLatest, mwCoalesced, mwOthers>>

(***************************************************************************)
(* MultiWindowManager::process_creates                                     *)
(***************************************************************************)
\* What the OS and the GPU do for one request: event_loop.create_window fails,
\* or it yields a window with id `id` and physical size pw x ph, for which
\* instance.create_surface then fails or succeeds.
OsFailures ==
    {[res |-> "window_err", id |-> 0, pw |-> 0, ph |-> 0],
     [res |-> "surface_err", id |-> 0, pw |-> 0, ph |-> 0]}
OsSuccesses(ids, sizes) == [res : {"ok"}, id : ids, pw : sizes, ph : sizes]
OsOutcomes == OsFailures \cup OsSuccesses(WinitIds, Sizes)

\* winit ids of the windows alive in `wins`.
LiveWinitIds(wins) == {wins[f].winit : f \in DOMAIN wins}

\* The answers the OS can give while the windows `wins` are alive: a new
\* window's id is not the id of a live one.
OsAnswers(wins, outcomes) ==
    {o \in outcomes : o.res = "ok" => o.id \notin LiveWinitIds(wins)}

\* WindowState as process_creates builds it.
NewWindowState(req, out) ==
    [winit |-> out.id,
     width |-> out.pw, height |-> out.ph,
     cfg_width |-> out.pw, cfg_height |-> out.ph,
     emacs_frame_id |-> req.emacs_frame_id,
     current_frame |-> None,
     child_frames |-> ChildFrameManagerNew,
     frame_dirty |-> FALSE]

\* One iteration of the loop over the batch, once the OS has answered `out`.
\* st = [windows, winit_to_emacs, failed]; `failed` collects the frame ids
\* whose creation failed and was not made up for later in the batch.
CreateAnsweredMapsEarlyMutant(st, req, out) ==
    LET f == req.emacs_frame_id IN
    IF out.res = "window_err"
    THEN [st EXCEPT !.failed = @ \cup {f}]
    ELSE IF out.res = "surface_err"
    THEN [st EXCEPT !.winit_to_emacs =
                        MapInsert(@, CHOOSE i \in WinitIds :
                                        i \notin LiveWinitIds(st.windows), f),
                    !.failed = @ \cup {f}]
    ELSE [st EXCEPT !.winit_to_emacs = MapInsert(@, out.id, f),
                    !.windows = MapInsert(@, f, NewWindowState(req, out)),
                    !.failed = @ \ {f}]

CreateAnswered(st, req, out) ==
    LET f == req.emacs_frame_id IN
    IF out.res = "window_err"
    THEN \* Err(e) of create_window: logged
         [st EXCEPT !.failed = @ \cup {f}]
    ELSE IF out.res = "surface_err"
    THEN \* Err(e) of create_surface: logged, continue; the window is dropped
         [st EXCEPT !.failed = @ \cup {f}]
    ELSE \* surface configured with the physical size; both maps inserted
         [st EXCEPT !.winit_to_emacs = MapInsert(@, out.id, f),
                    !.windows = MapInsert(@, f, NewWindowState(req, out)),
                    !.failed = @ \ {f}]

\* One iteration: the states it can end in, over the answers of the OS.
CreateOne(st, req, outcomes) ==
    IF req.emacs_frame_id \in DOMAIN st.windows
    THEN {st}   \* "already exists": continue
    ELSE {CreateAnswered(st, req, out) : out \in OsAnswers(st.windows, outcomes)}

\* for req in pending { ... }, from request i on: the states it can end in.
RECURSIVE CreateLoop(_, _, _, _)
CreateLoop(st, reqs, outcomes, i) ==
    IF i > Len(reqs) THEN {st}
    ELSE UNION {CreateLoop(st2, reqs, outcomes, i + 1) :
                    st2 \in CreateOne(st, reqs[i], outcomes)}

ProcessCreates(outcomes) ==
    LET pending == pending_creates   \* std::mem::take
        st0 == [windows |-> windows, winit_to_emacs |-> winit_to_emacs,
                failed |-> {}]
    IN \E st \in CreateLoop(st0, pending, outcomes, 1) :
        /\ windows' = st.windows
        /\ winit_to_emacs' = st.winit_to_emacs
        /\ pending_creates' = <<>>
        /\ mwFailed' = st.failed
        /\ mwLatest' = LatestFor(st.windows, mwLatest)
        /\ UNCHANGED <<pending_destroys, ret, mwCoalesced, mwOthers>>

(***************************************************************************)
(* MultiWindowManager::process_destroys                                    *)
(***************************************************************************)
DestroyOneKeepsReverseMutant(st, frame_id) ==
    IF frame_id \in DOMAIN st.windows
    THEN [windows |-> MapRemove(st.windows, frame_id),
          winit_to_emacs |-> st.winit_to_emacs]
    ELSE st

DestroyOne(st, frame_id) ==
    IF frame_id \in DOMAIN st.windows
    THEN [windows |-> MapRemove(st.windows, frame_id),
          winit_to_emacs |-> MapRemove(st.winit_to_emacs, st.windows[frame_id].winit)]
    ELSE st

RECURSIVE DestroyLoop(_, _, _)
DestroyLoop(st, reqs, i) ==
    IF i > Len(reqs) THEN st
    ELSE DestroyLoop(DestroyOne(st, reqs[i]), reqs, i + 1)

ProcessDestroys ==
    LET st == DestroyLoop([windows |-> windows, winit_to_emacs |-> winit_to_emacs],
                          pending_destroys, 1)
    IN /\ windows' = st.windows
       /\ winit_to_emacs' = st.winit_to_emacs
       /\ pending_destroys' = <<>>
       /\ mwLatest' = LatestFor(st.windows, mwLatest)
       /\ UNCHANGED <<pending_creates, ret, mwFailed, mwCoalesced, mwOthers>>

(***************************************************************************)
(* MultiWindowManager::route_frame                                         *)
(***************************************************************************)
\* The possible results [windows, ret] of route_frame(frame). The child-frame
\* branch walks the HashMap in arbitrary order and takes the first window whose
\* emacs_frame_id is the parent.
RouteFrameKeepsFirstMutant(wins, frame) ==
    IF frame.frame_id # 0 /\ frame.parent_id = 0 /\ frame.frame_id \in DOMAIN wins
    THEN {[windows |-> [wins EXCEPT ![frame.frame_id].current_frame =
                                        IF @ = None THEN Some(frame) ELSE @,
                                    ![frame.frame_id].frame_dirty = TRUE],
           ret |-> TRUE]}
    ELSE IF frame.frame_id # 0 /\ frame.parent_id \in DOMAIN wins
    THEN {[windows |-> [wins EXCEPT ![frame.parent_id].child_frames =
                                        UpdateFrame(@, frame),
                                    ![frame.parent_id].frame_dirty = TRUE],
           ret |-> TRUE]}
    ELSE {[windows |-> wins, ret |-> FALSE]}

RouteFrameByIdMutant(wins, frame) ==
    IF frame.frame_id # 0 /\ frame.frame_id \in DOMAIN wins
    THEN {[windows |-> [wins EXCEPT ![frame.frame_id].current_frame = Some(frame),
                                    ![frame.frame_id].frame_dirty = TRUE],
           ret |-> TRUE]}
    ELSE {[windows |-> wins, ret |-> FALSE]}

RouteFrame(wins, frame) ==
    IF frame.frame_id # 0
    THEN IF frame.parent_id # 0
         THEN LET owners == {k \in DOMAIN wins :
                                wins[k].emacs_frame_id = frame.parent_id}
              IN IF owners # {}
                 THEN {[windows |-> [wins EXCEPT
                                       ![k].child_frames = UpdateFrame(@, frame),
                                       ![k].frame_dirty = TRUE],
                        ret |-> TRUE] : k \in owners}
                 ELSE {[windows |-> wins, ret |-> FALSE]}
         ELSE IF frame.frame_id \in DOMAIN wins
              THEN {[windows |-> [wins EXCEPT
                                    ![frame.frame_id].current_frame = Some(frame),
                                    ![frame.frame_id].frame_dirty = TRUE],
                     ret |-> TRUE]}
              ELSE {[windows |-> wins, ret |-> FALSE]}
    ELSE {[windows |-> wins, ret |-> FALSE]}

\* The window a frame is addressed to: its parent's for an overlay, its own for
\* a root frame, none (0) for the primary window's frame.
Addressee(frame) ==
    IF frame.frame_id = 0 THEN 0
    ELSE IF frame.parent_id # 0 THEN frame.parent_id ELSE frame.frame_id

\* The frame as the latest one received by its addressee.
Received(latest, frame) ==
    IF frame.parent_id # 0
    THEN [latest EXCEPT ![Addressee(frame)].child = MapInsert(@, frame.frame_id, frame)]
    ELSE [latest EXCEPT ![Addressee(frame)].root = Some(frame)]

\* The addressee still held a frame in the slot this one goes to.
Replaces(latest, frame) ==
    IF frame.parent_id # 0
    THEN frame.frame_id \in DOMAIN latest[Addressee(frame)].child
    ELSE latest[Addressee(frame)].root # None

DoRouteFrame(frame) ==
    \E r \in RouteFrame(windows, frame) :
        /\ windows' = r.windows
        /\ ret' = r.ret
        /\ mwLatest' = IF Addressee(frame) \in DOMAIN windows
                       THEN Received(mwLatest, frame) ELSE mwLatest
        /\ mwCoalesced' = (mwCoalesced \/ (Addressee(frame) \in DOMAIN windows
                                           /\ Replaces(mwLatest, frame)))
        /\ UNCHANGED <<winit_to_emacs, pending_creates, pending_destroys, mwFailed, mwOthers>>

(***************************************************************************)
(* The multi-window manager as the render thread drives it.                *)
(***************************************************************************)
\* The frames routed while the window lifecycle is explored: one content, root
\* frames of every id and the overlays of one id.
LifecycleFrames ==
    {fr \in FramesOf("new") : fr.parent_id = 0 \/ fr.frame_id = MaxFrameId}

\* Window lifecycle: every operation and every answer of the OS.
MWNext ==
    \/ \E f \in FrameIds : RequestCreate(f)
    \/ \E f \in FrameIds : RequestDestroy(f)
    \/ ProcessCreates(OsOutcomes)
    \/ ProcessDestroys
    \/ \E fr \in LifecycleFrames : DoRouteFrame(fr)
    \/ \E f \in FrameIds, w \in Sizes, h \in Sizes : DoHandleResize(f, w, h)

SpecMW == MWInit /\ [][MWNext]_vars

\* Frame routing: windows of one size are created, frames of every kind routed.
RouteNext ==
    \/ \E f \in FrameIds : RequestCreate(f)
    \/ ProcessCreates(OsSuccesses(FrameIds, {MaxSize}))
    \/ \E fr \in FrameGlyphBuffers : DoRouteFrame(fr)

SpecRoute == MWInit /\ [][RouteNext]_vars

(***************************************************************************)
(* Claims about the multi-window manager.                                  *)
(***************************************************************************)
\* The windows whose emacs_frame_id is p.
WindowsOf(wins, p) == {k \in DOMAIN wins : wins[k].emacs_frame_id = p}

\* What C1 promises of route_frame(fr), between the state before and after.
RouteFrameContract(fr) ==
    LET f == fr.frame_id
        p == fr.parent_id
    IN IF f # 0 /\ p = 0 /\ f \in DOMAIN windows
       THEN /\ windows'[f].current_frame = Some(fr)
            /\ windows'[f].frame_dirty
            /\ ret' = TRUE
       ELSE IF f # 0 /\ p # 0 /\ WindowsOf(windows, p) # {}
       THEN /\ \E k \in WindowsOf(windows, p) :
                 /\ f \in DOMAIN windows'[k].child_frames
                 /\ windows'[k].child_frames[f] = fr
                 /\ windows'[k].frame_dirty
            /\ ret' = TRUE
       ELSE /\ ret' = FALSE
            /\ DOMAIN windows' = DOMAIN windows
            /\ \A k \in DOMAIN windows :
                 /\ windows'[k].current_frame = windows[k].current_frame
                 /\ windows'[k].child_frames = windows[k].child_frames
                 /\ windows'[k].frame_dirty = windows[k].frame_dirty

\* C1: route_frame(frame) installs a root frame (frame_id # 0, parent_id = 0,
\* window frame_id exists) as that window's current_frame, installs an overlay
\* (frame_id # 0, parent_id # 0, a window of the parent exists) in that window's
\* child frames, marks the window dirty and returns true in both cases; in every
\* other case it returns false and changes no window's current frame, child
\* frames or dirty flag.
C1_RouteFrameContract ==
    [][\A fr \in FrameGlyphBuffers : DoRouteFrame(fr) => RouteFrameContract(fr)]_vars

\* C1 witness: a window holds a routed root frame and a routed overlay and is
\* dirty, and the route_frame call made last returned false.
C1_Witness ==
    \E f \in DOMAIN windows :
        /\ windows[f].current_frame # None
        /\ windows[f].child_frames # <<>>
        /\ windows[f].frame_dirty
        /\ ret = FALSE

\* C2: no call of request_create, request_destroy, process_creates,
\* process_destroys, route_frame or handle_resize takes the dirty flag of a
\* window from true to false.
C2_DirtyNeverCleared ==
    [][\A f \in DOMAIN windows \cap DOMAIN windows' :
          windows[f].frame_dirty => windows'[f].frame_dirty]_vars

\* C2 witness: a window that is dirty without holding any frame (a resize
\* dirtied it) lives on after a process_creates run that failed for another
\* frame id and with both queues drained.
C2_Witness ==
    \E f \in DOMAIN windows :
        /\ windows[f].frame_dirty
        /\ windows[f].current_frame = None
        /\ windows[f].child_frames = <<>>
        /\ mwFailed # {}
        /\ pending_creates = <<>>
        /\ pending_destroys = <<>>

\* C3: after any sequence of route_frame calls each window's current_frame is
\* the root frame routed to it last, and for each child frame id it holds the
\* overlay routed last for that child.
C3_LatestFrameKept ==
    /\ DOMAIN mwLatest = DOMAIN windows
    /\ \A f \in DOMAIN windows :
         /\ windows[f].current_frame = mwLatest[f].root
         /\ windows[f].child_frames = mwLatest[f].child

\* C3 witness: frames were routed over earlier ones, and a window holds a root
\* frame and an overlay of the later content.
C3_Witness ==
    /\ mwCoalesced
    /\ \E f \in DOMAIN windows :
         /\ windows[f].current_frame # None
         /\ windows[f].current_frame[1].content = "new"
         /\ \E c \in DOMAIN windows[f].child_frames :
              windows[f].child_frames[c].content = "new"

\* C4 as claimed: in every reachable state each window's surface
\* configuration has width > 0 and height > 0.
C4_SurfaceNeverZero ==
    \A f \in DOMAIN windows :
        windows[f].cfg_width > 0 /\ windows[f].cfg_height > 0

\* A step in which process_creates ran on a batch.
IsProcessCreates ==
    \/ pending_creates # <<>> /\ pending_creates' = <<>>
    \/ DOMAIN windows' \ DOMAIN windows # {}
    \/ mwFailed' # mwFailed

\* C5: when window or surface creation fails for a pending request, neither
\* map gains an entry for that frame id, the other requests of the batch are
\* still processed (each is created, already there, or failed itself), the
\* pending-creates queue is empty afterwards, and a later route_frame
\* addressed to that frame id returns false.
C5_FailedCreateLeavesNoEntry ==
    /\ [][IsProcessCreates =>
            /\ pending_creates' = <<>>
            /\ \A i \in 1..Len(pending_creates) :
                 pending_creates[i].emacs_frame_id \in DOMAIN windows' \cup mwFailed'
            /\ \A f \in mwFailed' :
                 /\ f \notin DOMAIN windows'
                 /\ \A id \in DOMAIN winit_to_emacs' : winit_to_emacs'[id] # f]_vars
    /\ [](\A f \in mwFailed :
            /\ f \notin DOMAIN windows
            /\ \A id \in DOMAIN winit_to_emacs : winit_to_emacs[id] # f
            /\ \A fr \in FrameGlyphBuffers :
                 Addressee(fr) = f =>
                     \A r \in RouteFrame(windows, fr) : r.ret = FALSE)

\* C5 witness: creation failed for frame 1 in the batch that created the window
\* of frame 2 (still as created), the queue is empty, and the last route_frame
\* returned false.
C5_Witness ==
    /\ mwFailed = {1}
    /\ 2 \in DOMAIN windows
    /\ ~windows[2].frame_dirty
    /\ \A id \in DOMAIN winit_to_emacs : winit_to_emacs[id] = 2
    /\ pending_creates = <<>>
    /\ ret = FALSE

(***************************************************************************)
(* layout/emacs_types.rs: the gap buffer and gap_buffer_copy_text.         *)
(***************************************************************************)
\* BEG_BYTE: Emacs byte positions are 1-based.
BEG_BYTE == 1

\* Bytes a buffer's text is made of (two ASCII bytes and one >= 0x80); the
\* memory inside the gap holds 255, which is none of them.
TextBytes == {65, 66, 200}

\* All sequences over S of length at most n.
RECURSIVE SeqsUpTo(_, _)
SeqsUpTo(S, n) ==
    IF n = 0 THEN {<<>>}
    ELSE LET shorter == SeqsUpTo(S, n - 1)
         IN shorter \cup {Append(q, x) : q \in {r \in shorter : Len(r) = n - 1}, x \in S}

\* The memory at `beg` of a buffer whose text is T with the gap at gpt_byte:
\* the text before the gap, the gap, the text after it.
GapMemory(T, gpt_byte, gap_size) ==
    SubSeq(T, 1, gpt_byte - 1)
    \o [i \in 1..gap_size |-> 255]
    \o SubSeq(T, gpt_byte, Len(T))

\* The EmacsBufferText of such a buffer (beg is offset 0 of mem).
BufferText(T, gpt_byte, gap_size) ==
    [mem |-> GapMemory(T, gpt_byte, gap_size), gpt_byte |-> gpt_byte, gap_size |-> gap_size]

\* std::slice::from_raw_parts(beg.add(off), n): the offsets read and the bytes.
SliceOffsets(off, n) == [i \in 1..n |-> off + i - 1]
SliceBytes(t, off, n) == [i \in 1..n |-> t.mem[off + i]]

\* buf_byte_address: the offset from beg of byte position byte_pos.
BufByteAddress(t, byte_pos) ==
    LET offset == byte_pos - BEG_BYTE
        gap_adjust == IF byte_pos < t.gpt_byte THEN 0 ELSE t.gap_size
    IN offset + gap_adjust

\* buf_fetch_byte
BufFetchByte(t, byte_pos) == t.mem[BufByteAddress(t, byte_pos) + 1]

\* The unibyte loop: bytes >= 0x80 become two bytes, 0xC0 | (b >> 6) and
\* 0x80 | (b & 0x3F).
RECURSIVE UnibyteCopy(_, _, _)
UnibyteCopy(t, pos, byte_to) ==
    IF pos >= byte_to THEN <<>>
    ELSE LET b == BufFetchByte(t, pos)
         IN (IF b < 128 THEN <<b>> ELSE <<192 + (b \div 64), 128 + (b % 64)>>)
            \o UnibyteCopy(t, pos + 1, byte_to)

\* The multibyte branch: [bytes, reads], reads being the offsets from beg it
\* copies from.
MultibyteCopyNoGapSkipMutant(t, byte_from, byte_to) ==
    LET total_bytes == byte_to - byte_from
    IN IF byte_to <= t.gpt_byte
       THEN [bytes |-> SliceBytes(t, byte_from - BEG_BYTE, total_bytes),
             reads |-> SliceOffsets(byte_from - BEG_BYTE, total_bytes)]
       ELSE IF byte_from >= t.gpt_byte
       THEN [bytes |-> SliceBytes(t, byte_from - BEG_BYTE + t.gap_size, total_bytes),
             reads |-> SliceOffsets(byte_from - BEG_BYTE + t.gap_size, total_bytes)]
       ELSE [bytes |-> SliceBytes(t, byte_from - BEG_BYTE, total_bytes),
             reads |-> SliceOffsets(byte_from - BEG_BYTE, total_bytes)]

MultibyteCopy(t, byte_from, byte_to) ==
    LET total_bytes == byte_to - byte_from
    IN IF byte_to <= t.gpt_byte
       THEN \* entire range is before the gap
            [bytes |-> SliceBytes(t, byte_from - BEG_BYTE, total_bytes),
             reads |-> SliceOffsets(byte_from - BEG_BYTE, total_bytes)]
       ELSE IF byte_from >= t.gpt_byte
       THEN \* entire range is after the gap
            [bytes |-> SliceBytes(t, byte_from - BEG_BYTE + t.gap_size, total_bytes),
             reads |-> SliceOffsets(byte_from - BEG_BYTE + t.gap_size, total_bytes)]
       ELSE \* the range spans the gap
            LET before_gap == t.gpt_byte - byte_from
                after_gap == byte_to - t.gpt_byte
                src1 == byte_from - BEG_BYTE
                src2 == t.gpt_byte - BEG_BYTE + t.gap_size
            IN [bytes |-> SliceBytes(t, src1, before_gap) \o SliceBytes(t, src2, after_gap),
                reads |-> SliceOffsets(src1, before_gap) \o SliceOffsets(src2, after_gap)]

\* gap_buffer_copy_text(buf, byte_from, byte_to, out): the new contents of out
\* and the offsets read. text_null: buf_text_ptr(buf) is null.
GapBufferCopyTextAppendsMutant(t, text_null, multibyte, byte_from, byte_to, out) ==
    IF byte_from >= byte_to THEN [bytes |-> out, reads |-> <<>>]
    ELSE IF text_null THEN [bytes |-> out, reads |-> <<>>]
    ELSE IF multibyte
    THEN [bytes |-> out \o MultibyteCopy(t, byte_from, byte_to).bytes,
          reads |-> MultibyteCopy(t, byte_from, byte_to).reads]
    ELSE [bytes |-> out \o UnibyteCopy(t, byte_from, byte_to),
          reads |-> [i \in 1..(byte_to - byte_from) |->
                        BufByteAddress(t, byte_from + i - 1)]]

GapBufferCopyText(t, text_null, multibyte, byte_from, byte_to, out) ==
    LET cleared == SubSeq(out, 1, 0)   \* out.clear() comes first
    IN IF byte_from >= byte_to THEN [bytes |-> cleared, reads |-> <<>>]
       ELSE IF text_null THEN [bytes |-> cleared, reads |-> <<>>]
       ELSE IF multibyte
       THEN [bytes |-> cleared \o MultibyteCopy(t, byte_from, byte_to).bytes,
             reads |-> MultibyteCopy(t, byte_from, byte_to).reads]
       ELSE [bytes |-> cleared \o UnibyteCopy(t, byte_from, byte_to),
             reads |-> [i \in 1..(byte_to - byte_from) |->
                           BufByteAddress(t, byte_from + i - 1)]]

\* A buffer with any text, gap position and gap size, a byte range within it,
\* and a caller's vector that is empty or not.
GapInit ==
    /\ windows = <<>> /\ winit_to_emacs = <<>> /\ pending_creates = <<>>
    /\ pending_destroys = <<>> /\ ret = FALSE /\ mwFailed = {}
    /\ mwLatest = <<>> /\ mwCoalesced = FALSE
    /\ lay = LayIdle
    /\ ofs = OfsIdle /\ wt = WtIdle /\ anim = AnimIdle /\ RestIdle
    /\ \E T \in SeqsUpTo(TextBytes, MaxLen) :
       \E gpt_byte \in 1..(Len(T) + 1), gap_size \in 0..MaxGap :
       \E byte_from \in 1..(Len(T) + 1), byte_to \in 1..(Len(T) + 1) :
       \E multibyte \in BOOLEAN, text_null \in BOOLEAN, out \in {<<>>, <<66>>} :
           gb = [pc |-> "call", text |-> T,
                 t |-> BufferText(T, gpt_byte, gap_size),
                 text_null |-> text_null, multibyte |-> multibyte,
                 byte_from |-> byte_from, byte_to |-> byte_to,
                 out0 |-> out, out |-> out, reads |-> <<>>]

\* The call of gap_buffer_copy_text.
CopyText ==
    /\ gb.pc = "call"
    /\ LET r == GapBufferCopyText(gb.t, gb.text_null, gb.multibyte,
                                  gb.byte_from, gb.byte_to, gb.out)
       IN gb' = [gb EXCEPT !.pc = "done", !.out = r.bytes, !.reads = r.reads]
    /\ UNCHANGED <<mwVars, lay, ofs, wt, anim, rest>>

GapNext == CopyText

SpecGap == GapInit /\ [][GapNext]_vars

\* The offsets from beg that lie inside the gap.
GapOffsets(t) == (t.gpt_byte - 1)..(t.gpt_byte - 1 + t.gap_size - 1)

\* C8: for a multibyte buffer with text T, any gap position and gap size,
\* copy_text(buf, from, to) with 1 <= from < to <= len+1 yields exactly bytes
\* from..to-1 of T, wherever the range lies with respect to the gap, and reads
\* no byte from inside the gap.
C8_CopyTextYieldsRange ==
    (gb.pc = "done" /\ gb.multibyte /\ ~gb.text_null /\ gb.byte_from < gb.byte_to) =>
        /\ gb.out = SubSeq(gb.text, gb.byte_from, gb.byte_to - 1)
        /\ \A i \in 1..Len(gb.reads) : gb.reads[i] \notin GapOffsets(gb.t)

\* C8 witness: the whole text of a full-length buffer was copied across a
\* gap of positive size lying strictly inside the range.
C8_Witness ==
    /\ gb.pc = "done" /\ gb.multibyte /\ ~gb.text_null
    /\ Len(gb.text) = MaxLen
    /\ gb.byte_from = 1 /\ gb.byte_to = Len(gb.text) + 1
    /\ gb.t.gpt_byte > 1 /\ gb.t.gpt_byte <= Len(gb.text)
    /\ gb.t.gap_size > 0
    /\ gb.out = gb.text

(***************************************************************************)
(* layout/engine.rs: decode_utf8, is_wide_char, LayoutEngine::layout_window *)
(***************************************************************************)
\* The characters of the buffers laid out: an ordinary one, a wide (CJK) one,
\* newline, tab, carriage return and a control character.
ChNewline == 10
ChTab == 9
ChReturn == 13
ChSpace == 32
ChCaret == 94
ChReplacement == 65533
LayoutChars == {97, 19990, ChNewline, ChTab, ChReturn, 1}

\* The UTF-8 bytes of code point cp, as the host stores buffer text.
EncodeUtf8(cp) ==
    IF cp < 128 THEN <<cp>>
    ELSE IF cp < 2048 THEN <<192 + (cp \div 64), 128 + (cp % 64)>>
    ELSE IF cp < 65536
    THEN <<224 + (cp \div 4096), 128 + ((cp \div 64) % 64), 128 + (cp % 64)>>
    ELSE <<240 + (cp \div 262144), 128 + ((cp \div 4096) % 64),
           128 + ((cp \div 64) % 64), 128 + (cp % 64)>>

\* neomacs_layout_buffer_text(buffer, from, to, ..): the bytes of the
\* characters at positions from..to-1 of the buffer's text.
RECURSIVE BufferTextBytes(_, _, _)
BufferTextBytes(text, from, to) ==
    IF from >= to \/ from > Len(text) THEN <<>>
    ELSE EncodeUtf8(text[from]) \o BufferTextBytes(text, from + 1, to)

\* char::from_u32(cp).unwrap_or('\u{FFFD}')
CharFromU32(cp) ==
    IF (cp >= 55296 /\ cp <= 57343) \/ cp > 1114111 THEN ChReplacement ELSE cp

\* decode_utf8(&text[byte_idx..]): the character and the bytes consumed.
\* byte_idx counts the bytes before the slice.
DecodeUtf8(bytes, byte_idx) ==
    LET len == Len(bytes) - byte_idx
        b(i) == bytes[byte_idx + 1 + i]
    IN IF len = 0 THEN [ch |-> 0, len |-> 0]
       ELSE IF b(0) < 128 THEN [ch |-> b(0), len |-> 1]
       ELSE IF b(0) < 192 THEN [ch |-> ChReplacement, len |-> 1]
       ELSE IF b(0) < 224
       THEN IF len < 2 THEN [ch |-> ChReplacement, len |-> 1]
            ELSE [ch |-> CharFromU32((b(0) % 32) * 64 + (b(1) % 64)), len |-> 2]
       ELSE IF b(0) < 240
       THEN IF len < 3 THEN [ch |-> ChReplacement, len |-> 1]
            ELSE [ch |-> CharFromU32((b(0) % 16) * 4096 + (b(1) % 64) * 64
                                     + (b(2) % 64)),
                  len |-> 3]
       ELSE IF len < 4 THEN [ch |-> ChReplacement, len |-> 1]
            ELSE [ch |-> CharFromU32((b(0) % 8) * 262144 + (b(1) % 64) * 4096
                                     + (b(2) % 64) * 64 + (b(3) % 64)),
                  len |-> 4]

\* is_wide_char
IsWideChar(cp) ==
    \/ (cp >= 19968 /\ cp <= 40959)      \* CJK Unified Ideographs
    \/ (cp >= 13312 /\ cp <= 19903)      \* CJK Extension A
    \/ (cp >= 131072 /\ cp <= 173791)    \* CJK Extension B
    \/ (cp >= 63744 /\ cp <= 64255)      \* CJK Compatibility Ideographs
    \/ (cp >= 65281 /\ cp <= 65376)      \* Fullwidth Forms
    \/ (cp >= 65504 /\ cp <= 65510)
    \/ (cp >= 44032 /\ cp <= 55215)      \* Hangul Syllables
    \/ (cp >= 11904 /\ cp <= 12255)      \* CJK Radicals
    \/ (cp >= 12288 /\ cp <= 12351)      \* Katakana/Hiragana
    \/ (cp >= 12352 /\ cp <= 12447)
    \/ (cp >= 12448 /\ cp <= 12543)
    \/ (cp >= 12784 /\ cp <= 12799)

\* The draw entries of a FrameGlyphBuffer. Every entry has the same fields;
\* ch is 0 and style is -1 where they do not apply.
Entry(kind, x, y, w, h, ch, style) ==
    [kind |-> kind, x |-> x, y |-> y, w |-> w, h |-> h, ch |-> ch, style |-> style]

\* FrameGlyphBuffer::add_background / add_stretch / add_char / add_cursor /
\* set_cursor_inverse / set_face: each appends its entry.
AddBackground(out, x, y, w, h) == Append(out, Entry("background", x, y, w, h, 0, -1))
AddStretch(out, x, y, w, h) == Append(out, Entry("stretch", x, y, w, h, 0, -1))
AddChar(out, ch, x, y, w, h) == Append(out, Entry("glyph", x, y, w, h, ch, -1))
AddCursor(out, x, y, w, h, style) == Append(out, Entry("cursor", x, y, w, h, 0, style))
SetCursorInverse(out, x, y, w, h) == Append(out, Entry("cursor_inverse", x, y, w, h, 0, -1))
SetFace(out) == Append(out, Entry("face", 0, 0, 0, 0, 0, -1))

Min(a, b) == IF a < b THEN a ELSE b
\* The element of a singleton set. A state computed by one step is handed to
\* the next as the element of a singleton, so that it is computed once.
Only(S) == CHOOSE x \in S : TRUE
Max(a, b) == IF a > b THEN a ELSE b

\* The geometry layout_window derives from the window parameters.
TextX(p) == p.text_bounds.x
TextY(p) == p.text_bounds.y + p.header_line_height + p.tab_line_height
TextWidth(p) == p.text_bounds.width
TextHeight(p) ==
    p.text_bounds.height - p.header_line_height - p.tab_line_height - p.mode_line_height
Cols(p) == TextWidth(p) \div p.char_width
RowsOf(p) == TextHeight(p) \div p.char_height

\* The cursor check at the head of the loop body (lines 207-246).
PlaceCursorInWalk(p, st) ==
    IF ~st.cursor_placed /\ st.charpos >= p.point
    THEN LET cursor_x == TextX(p) + st.col * p.char_width
             cursor_y == TextY(p) + st.row * p.char_height
             cursor_w == IF p.cursor_type = 1 THEN Max(p.cursor_bar_width, 1)
                         ELSE p.char_width
             cursor_h == IF p.cursor_type = 1 THEN p.char_height
                         ELSE IF p.cursor_type = 2 THEN 2
                         ELSE p.char_height
             cursor_style == IF p.selected THEN p.cursor_type ELSE 3
             o1 == AddCursor(st.out, cursor_x, cursor_y, cursor_w, cursor_h, cursor_style)
             o2 == IF cursor_style = 0
                   THEN SetCursorInverse(o1, cursor_x, cursor_y, cursor_w, cursor_h)
                   ELSE o1
         IN [st EXCEPT !.out = o2, !.cursor_placed = TRUE]
    ELSE st

\* The inner loops "skip to end of line" of the truncate branches: consume
\* characters up to and including the next newline.
RECURSIVE SkipToEol(_, _, _)
SkipToEol(p, bytes, st) ==
    IF st.byte_idx < Len(bytes)
    THEN LET d == DecodeUtf8(bytes, st.byte_idx)
             s1 == [st EXCEPT !.byte_idx = @ + d.len, !.charpos = @ + 1,
                              !.trace = Append(@, [kind |-> "skip", charpos |-> st.charpos,
                                                   ch |-> d.ch, col0 |-> st.col,
                                                   row0 |-> st.row, col1 |-> st.col,
                                                   row1 |-> st.row, first |-> 0, n |-> 0,
                                                   last |-> st.charpos])]
         IN IF d.ch = ChNewline
            THEN [s1 EXCEPT !.col = 0, !.row = @ + 1]
            ELSE Only({SkipToEol(p, bytes, s) : s \in {s1}})
    ELSE st

\* The match on the decoded character (lines 253-381). st has byte_idx and
\* charpos already advanced. `skip` says the iteration ended with `continue`
\* or `break`, before window_end_charpos = charpos; brk says it was `break`.
MatchCh(p, bytes, st, ch) ==
    LET cols == Cols(p)
        max_rows == RowsOf(p)
        char_w == p.char_width
        char_h == p.char_height
        gx == TextX(p) + st.col * char_w
        gy == TextY(p) + st.row * char_h
    IN IF ch = ChNewline
       THEN LET remaining == (cols - st.col) * char_w
            IN [st EXCEPT !.out = IF remaining > 0
                                  THEN AddStretch(@, gx, gy, remaining, char_h) ELSE @,
                          !.col = 0, !.row = @ + 1]
       ELSE IF ch = ChTab
       THEN LET tab_w == Max(p.tab_width, 1)
                next_tab == ((st.col \div tab_w) + 1) * tab_w
                spaces == Min(next_tab - st.col, cols - st.col)
                s1 == [st EXCEPT !.out = AddStretch(@, gx, gy, spaces * char_w, char_h),
                                 !.col = @ + spaces]
            IN IF s1.col >= cols
               THEN IF p.truncate_lines
                    THEN SkipToEol(p, bytes, s1)
                    ELSE [s1 EXCEPT !.col = 0, !.row = @ + 1]
               ELSE s1
       ELSE IF ch = ChReturn
       THEN st
       ELSE IF ch < ChSpace
       THEN IF st.col + 2 <= cols
            THEN [st EXCEPT !.out = AddChar(AddChar(@, ChCaret, gx, gy, char_w, char_h),
                                            ch + 64, gx + char_w, gy, char_w, char_h),
                            !.col = @ + 2]
            ELSE IF p.truncate_lines
                 THEN SkipToEol(p, bytes, st)
                 ELSE [st EXCEPT !.col = 0, !.row = @ + 1]
       ELSE LET char_cols == IF IsWideChar(ch) THEN 2 ELSE 1
            IN IF st.col + char_cols > cols
               THEN IF p.truncate_lines
                    THEN [SkipToEol(p, bytes, st) EXCEPT !.skip = TRUE]
                    ELSE LET remaining == (cols - st.col) * char_w
                             s1 == [st EXCEPT !.out = IF remaining > 0
                                                      THEN AddStretch(@, gx, gy, remaining, char_h)
                                                      ELSE @,
                                              !.col = 0, !.row = @ + 1]
                         IN IF s1.row >= max_rows
                            THEN [s1 EXCEPT !.skip = TRUE, !.brk = TRUE]
                            ELSE [s1 EXCEPT !.out = AddChar(@, ch, TextX(p),
                                                            TextY(p) + s1.row * char_h,
                                                            char_cols * char_w, char_h),
                                            !.col = @ + char_cols]
               ELSE [st EXCEPT !.out = AddChar(@, ch, gx, gy, char_cols * char_w, char_h),
                               !.col = @ + char_cols]

\* One iteration of the walk (lines 205-384).
Decoded(p, bytes, st, s1) ==
    LET d == DecodeUtf8(bytes, s1.byte_idx)
    IN Only({LET ev == [kind |-> "walk", charpos |-> st.charpos, ch |-> d.ch,
                        col0 |-> st.col, row0 |-> st.row,
                        col1 |-> s3.col, row1 |-> s3.row,
                        first |-> Len(s1.out) + 1, n |-> Len(s3.out) - Len(s1.out),
                        last |-> s3.charpos - 1]
             IN IF s3.skip
                THEN [s3 EXCEPT !.skip = FALSE, !.trace = Append(@, ev)]
                ELSE [s3 EXCEPT !.window_end_charpos = s3.charpos,
                                !.trace = Append(@, ev)]
             : s3 \in {MatchCh(p, bytes, s2, d.ch) :
                       s2 \in {[s1 EXCEPT !.byte_idx = @ + d.len, !.charpos = @ + 1]}}})

WalkStep(p, bytes, st) ==
    Only({Decoded(p, bytes, st, s1) : s1 \in {PlaceCursorInWalk(p, st)}})

\* while byte_idx < bytes_read && row < max_rows { ... }
RECURSIVE Walk(_, _, _)
Walk(p, bytes, st) ==
    IF st.byte_idx < Len(bytes) /\ st.row < RowsOf(p) /\ ~st.brk
    THEN Only({Walk(p, bytes, s) : s \in {WalkStep(p, bytes, st)}})
    ELSE st

\* After the walk: the cursor if not placed yet (lines 386-417).
PlaceCursorAfterWalk(p, st) ==
    IF ~st.cursor_placed /\ p.point >= p.window_start
    THEN LET cursor_x == TextX(p) + st.col * p.char_width
             cursor_y == TextY(p) + Min(st.row, RowsOf(p) - 1) * p.char_height
             cursor_style == IF p.selected THEN p.cursor_type ELSE 3
             o1 == AddCursor(st.out, cursor_x, cursor_y, p.char_width, p.char_height,
                             cursor_style)
         IN [st EXCEPT !.out = IF cursor_style = 0
                               THEN SetCursorInverse(o1, cursor_x, cursor_y,
                                                     p.char_width, p.char_height)
                               ELSE o1]
    ELSE st

\* After the walk: the stretch over the rows left (lines 419-427).
FillRemainingRows(p, st) ==
    LET filled_rows == st.row + 1
        gy == TextY(p) + filled_rows * p.char_height
        remaining_h == TextHeight(p) - filled_rows * p.char_height
    IN IF filled_rows < RowsOf(p) /\ remaining_h > 0
       THEN [st EXCEPT !.out = AddStretch(@, TextX(p), gy, TextWidth(p), remaining_h)]
       ELSE st

\* layout_window(params, wp, frame_glyphs): the entries appended to `out` and
\* what is written back to the host (written = FALSE: nothing was).
LayoutWindow(p, out) ==
    LET nothing == [out |-> out, written |-> FALSE, window_end_charpos |-> 0,
                    row |-> 0, trace |-> <<>>]
        cols == Cols(p)
        max_rows == RowsOf(p)
        read_chars == Min(p.buffer_size - p.window_start + 1, cols * max_rows * 2)
        bytes == BufferTextBytes(p.text, p.window_start,
                                 Min(p.window_start + read_chars, p.buffer_size))
        st0 == [out |-> SetFace(out), col |-> 0, row |-> 0, charpos |-> p.window_start,
                cursor_placed |-> FALSE, window_end_charpos |-> p.window_start,
                byte_idx |-> 0, skip |-> FALSE, brk |-> FALSE, trace |-> <<>>]
    IN IF p.buffer_null THEN nothing
       ELSE IF cols <= 0 \/ max_rows <= 0 THEN nothing
       ELSE IF read_chars <= 0 THEN nothing
       ELSE IF Len(bytes) <= 0 THEN nothing
       ELSE Only({[out |-> st3.out, written |-> TRUE,
                   window_end_charpos |-> st3.window_end_charpos,
                   row |-> Min(st3.row, max_rows - 1), trace |-> st3.trace]
                  : st3 \in {FillRemainingRows(p, st2) :
                             st2 \in {PlaceCursorAfterWalk(p, st1) :
                                      st1 \in {Walk(p, bytes, s) : s \in {st0}}}}})

\* FrameGlyphBuffer::add_window_info: the record appended to the buffer's list
\* of per-window info.
AddWindowInfo(infos, p) ==
    Append(infos, [window_start |-> p.window_start, bounds |-> p.bounds,
                   mode_line_height |-> p.mode_line_height, selected |-> p.selected])

\* layout_frame for a frame of one leaf window: the window background, the
\* window's info record, then the window's content.
LayoutFrame(p) ==
    [layout |-> LayoutWindow(p, AddBackground(<<>>, p.bounds.x, p.bounds.y,
                                              p.bounds.width, p.bounds.height)),
     window_infos |-> AddWindowInfo(<<>>, p)]

\* The window parameters the host hands over: a text area of cols x rows cells
\* of 2 x 4 pixels at (1, 1) with one pixel to spare in each direction.
WindowParams(text, cols, rows, ws, point, trunc, tabw, sel, ctype) ==
    [text |-> text, buffer_null |-> FALSE,
     bounds |-> [x |-> 0, y |-> 0, width |-> cols * 2 + 3, height |-> rows * 4 + 3],
     text_bounds |-> [x |-> 1, y |-> 1, width |-> cols * 2 + 1, height |-> rows * 4 + 1],
     selected |-> sel, window_start |-> ws, point |-> point,
     buffer_size |-> Len(text) + 1,
     truncate_lines |-> trunc, tab_width |-> tabw,
     char_width |-> 2, char_height |-> 4,
     mode_line_height |-> 0, header_line_height |-> 0, tab_line_height |-> 0,
     cursor_type |-> ctype, cursor_bar_width |-> 1]

\* The buffers of the windows laid out: a text, or no buffer (a null pointer).
LayoutBuffers ==
    [null : {FALSE}, text : SeqsUpTo(LayoutChars, MaxChars)]
        \cup {[null |-> TRUE, text |-> <<>>]}
\* The grids of the windows laid out: every size up to the bounds, and of the
\* text areas too small for a cell, one without columns and one without rows.
LayoutGrids ==
    [cols : 1..MaxCols, rows : 1..MaxRows]
        \cup {[cols |-> 0, rows |-> 1], [cols |-> 1, rows |-> 0]}

LayoutInit ==
    /\ windows = <<>> /\ winit_to_emacs = <<>> /\ pending_creates = <<>>
    /\ pending_destroys = <<>> /\ ret = FALSE /\ mwFailed = {}
    /\ mwLatest = <<>> /\ mwCoalesced = FALSE
    /\ gb = GbIdle
    /\ ofs = OfsIdle /\ wt = WtIdle /\ anim = AnimIdle /\ RestIdle
    /\ \E b \in LayoutBuffers, g \in LayoutGrids :
       \E ws \in {1, 2} \cap 1..(Len(b.text) + 1), point \in 1..(Len(b.text) + 1) :
       \E trunc \in BOOLEAN, sel \in BOOLEAN, ctype \in {0, 1} :
           lay = [pc |-> "call",
                  p |-> [WindowParams(b.text, g.cols, g.rows, ws, point, trunc, 2,
                                      sel, ctype)
                         EXCEPT !.buffer_null = b.null],
                  out |-> <<>>, window_infos |-> <<>>, written |-> FALSE,
                  window_end_charpos |-> 0, row |-> 0, trace |-> <<>>]

\* The call of layout_frame.
DoLayoutFrame ==
    /\ lay.pc = "call"
    /\ \E r \in {LayoutFrame(lay.p)} :
          lay' = [lay EXCEPT !.pc = "done", !.out = r.layout.out,
                             !.window_infos = r.window_infos,
                             !.written = r.layout.written,
                             !.window_end_charpos = r.layout.window_end_charpos,
                             !.row = r.layout.row, !.trace = r.layout.trace]
    /\ UNCHANGED <<mwVars, gb, ofs, wt, anim, rest>>

LayoutNext == DoLayoutFrame

SpecLayout == LayoutInit /\ [][LayoutNext]_vars

(***************************************************************************)
(* Claims about the layout engine                                          *)
(***************************************************************************)
\* The entries of the laid-out window of one kind, by their place in the buffer.
EntriesOf(kind) == {i \in 1..Len(lay.out) : lay.out[i].kind = kind}
\* What the walk did with each character it decoded in the loop body.
WalkEvents == {lay.trace[i] : i \in {j \in 1..Len(lay.trace) : lay.trace[j].kind = "walk"}}
\* The entries appended while the walk handled the character of event e.
EventEntries(e) == {lay.out[i] : i \in e.first..(e.first + e.n - 1)}
PixelX(col) == TextX(lay.p) + col * lay.p.char_width
PixelY(row) == TextY(lay.p) + row * lay.p.char_height
InsideTextArea(e) ==
    /\ TextX(lay.p) <= e.x
    /\ e.x + e.w <= TextX(lay.p) + Cols(lay.p) * lay.p.char_width
    /\ TextY(lay.p) <= e.y
    /\ e.y + e.h <= TextY(lay.p) + RowsOf(lay.p) * lay.p.char_height
\* The cells a displayable character needs on its row: a tab at least one.
CellsNeeded(ch) ==
    IF ch = ChTab THEN 1
    ELSE IF ch < ChSpace THEN 2
    ELSE IF IsWideChar(ch) THEN 2 ELSE 1
Displayable(ch) == ch \notin {ChNewline, ChReturn}
Fits(e) == e.col0 + CellsNeeded(e.ch) <= Cols(lay.p)

\* C6: for a selected window laid out by layout_frame, whatever the buffer
\* content, point, window_start, truncate setting and grid size, exactly one
\* cursor entry is appended and its rectangle lies inside the text area.
C6_OneCursorInsideTextArea ==
    (lay.pc = "done" /\ lay.p.selected) =>
        /\ Cardinality(EntriesOf("cursor")) = 1
        /\ \A i \in EntriesOf("cursor") : InsideTextArea(lay.out[i])

\* C7: in the entries layout appends for a window, the window background
\* precedes every glyph and cursor, the cursor entry comes after every glyph
\* entry occupying the cursor's cell, and an inverse-cursor entry is the entry
\* immediately after the cursor entry, with the same rectangle.
C7_BackgroundGlyphsCursorInverse ==
    lay.pc = "done" =>
        /\ \A i \in EntriesOf("glyph") \cup EntriesOf("cursor") :
               \E b \in EntriesOf("background") : b < i
        /\ \A c \in EntriesOf("cursor") : \A g \in EntriesOf("glyph") :
               ( /\ lay.out[g].y = lay.out[c].y
                 /\ lay.out[g].x <= lay.out[c].x
                 /\ lay.out[c].x < lay.out[g].x + lay.out[g].w ) => g < c
        /\ \A v \in EntriesOf("cursor_inverse") :
               /\ v - 1 \in EntriesOf("cursor")
               /\ lay.out[v - 1].x = lay.out[v].x /\ lay.out[v - 1].y = lay.out[v].y
               /\ lay.out[v - 1].w = lay.out[v].w /\ lay.out[v - 1].h = lay.out[v].h

\* C9: with truncate_lines off, whenever an ordinary character, a control
\* character or a tab does not fit in the remaining cells of the row, a stretch
\* over exactly the remaining cells is emitted, layout continues at column 0
\* of the next row and the character is rendered there unless no rows remain;
\* and no character other than carriage return read before the rows are
\* exhausted is left without an entry.
C9_WrapRendersOnNextRow ==
    (lay.pc = "done" /\ ~lay.p.truncate_lines) =>
        \A e \in {w \in WalkEvents : Displayable(w.ch)} :
            /\ ~Fits(e) =>
                 /\ e.col0 < Cols(lay.p) =>
                      /\ e.n >= 1
                      /\ lay.out[e.first] =
                             Entry("stretch", PixelX(e.col0), PixelY(e.row0),
                                   (Cols(lay.p) - e.col0) * lay.p.char_width,
                                   lay.p.char_height, 0, -1)
                 /\ e.row1 = e.row0 + 1
                 /\ e.row0 + 1 < RowsOf(lay.p) =>
                      \E x \in EventEntries(e) :
                          /\ x.kind \in {"glyph", "stretch"}
                          /\ x.x = PixelX(0) /\ x.y = PixelY(e.row0 + 1)
            /\ (Fits(e) \/ e.row0 + 1 < RowsOf(lay.p)) =>
                 \E x \in EventEntries(e) : x.kind \in {"glyph", "stretch"} /\ x.w > 0

\* The visual row of the logical line that holds position charpos: the
\* newlines between window_start and charpos.
LineOf(charpos) ==
    Cardinality({c \in lay.p.window_start..(charpos - 1) : lay.p.text[c] = ChNewline})
\* The positions the walk discarded while handling the character of event e
\* under truncate_lines: from the character that overflowed (after a tab that
\* filled the row) to the last character skipped.
Discarded(e) ==
    IF e.ch = ChTab THEN (e.charpos + 1)..e.last ELSE e.charpos..e.last
Overflowed(e) == IF e.ch = ChTab THEN Discarded(e) # {} ELSE ~Fits(e)
\* The column after the visible portion of the line that overflowed at e.
VisibleEnd(e) == IF e.ch = ChTab THEN Cols(lay.p) ELSE e.col0

\* C10: with truncate_lines on, each logical line occupies exactly one visual
\* row: no glyph lies beyond the first cols cells, the characters from the
\* overflow up to and including the next newline produce no entries, the
\* following line starts at column 0 of the next row, and a point in the
\* discarded part gets its cursor at the end of the visible portion of its line.
C10_TruncateOneRowPerLine ==
    (lay.pc = "done" /\ lay.p.truncate_lines) =>
        /\ \A i \in EntriesOf("glyph") :
               lay.out[i].x + lay.out[i].w <= PixelX(Cols(lay.p))
        /\ \A e \in WalkEvents : \A x \in EventEntries(e) :
               x.y = PixelY(LineOf(e.charpos))
        /\ \A e \in {w \in WalkEvents : Displayable(w.ch) /\ Overflowed(w)} :
               /\ e.ch # ChTab => e.n = 0
               /\ lay.p.text[e.last] = ChNewline =>
                      e.col1 = 0 /\ e.row1 = e.row0 + 1
               /\ lay.p.point \in Discarded(e) =>
                      \E c \in EntriesOf("cursor") :
                          /\ lay.out[c].x = PixelX(VisibleEnd(e))
                          /\ lay.out[c].y = PixelY(e.row0)

\* The width in cells of the character of a glyph entry.
WidthInCells(ch) == IF IsWideChar(ch) THEN 2 ELSE 1
\* Glyph entry g stands on the cell grid, inside the text area.
OnGrid(g) ==
    \E col \in 0..Cols(lay.p), row \in 0..RowsOf(lay.p) :
        /\ g.x = PixelX(col) /\ g.y = PixelY(row)
        /\ col + WidthInCells(g.ch) <= Cols(lay.p)
        /\ row < RowsOf(lay.p)
\* Glyph entries i < j with no glyph and no stretch between them.
ConsecutiveGlyphs(i, j) ==
    /\ i \in EntriesOf("glyph") /\ j \in EntriesOf("glyph") /\ i < j
    /\ \A k \in (i + 1)..(j - 1) : lay.out[k].kind \notin {"glyph", "stretch"}

\* C11: every glyph entry is on the grid and inside the text area (column col
\* with col + width_in_cells <= cols, row < rows); consecutive glyphs on the
\* same row with no stretch between them are one or two cells apart; a wrap
\* advances y by exactly char_height.
C11_GlyphsOnGrid ==
    lay.pc = "done" =>
        /\ \A i \in EntriesOf("glyph") : OnGrid(lay.out[i])
        /\ \A i, j \in EntriesOf("glyph") :
               (ConsecutiveGlyphs(i, j) /\ lay.out[i].y = lay.out[j].y) =>
                   lay.out[j].x - lay.out[i].x
                       \in {lay.p.char_width, 2 * lay.p.char_width}
        /\ \A e \in WalkEvents :
               /\ e.row1 \in {e.row0, e.row0 + 1}
               /\ \A x \in EventEntries(e) :
                      x.y = PixelY(e.row0) \/ x.y = PixelY(e.row0) + lay.p.char_height

\* The characters layout_window asks the host for: positions window_start up
\* to the end of the buffer or of the read budget.
CharsRead(p) ==
    LET read_chars == Min(p.buffer_size - p.window_start + 1, Cols(p) * RowsOf(p) * 2)
        to == Min(p.window_start + read_chars, p.buffer_size)
    IN IF p.buffer_null \/ to < p.window_start THEN 0 ELSE to - p.window_start

\* C12: for every leaf window processed by layout_frame exactly one window-end
\* write-back happens, with window_start <= window_end_charpos <= window_start
\* + characters read and 0 <= row <= rows - 1, also when the layout of the
\* window stops early (null buffer, no columns or rows, nothing to read).
C12_WindowEndWrittenBack ==
    lay.pc = "done" =>
        /\ lay.written
        /\ lay.p.window_start <= lay.window_end_charpos
        /\ lay.window_end_charpos <= lay.p.window_start + CharsRead(lay.p)
        /\ 0 <= lay.row /\ lay.row <= RowsOf(lay.p) - 1

\* The entries drawn, without the face-context entries.
DrawnEntries == SelectSeq(lay.out, LAMBDA e : e.kind # "face")

\* C13: laying out a selected window on an empty buffer (window_start = point
\* = 1, nothing to read) yields, in order, the window background, one stretch
\* over the whole text area, one box cursor at (text_x, text_y) and one
\* inverse-cursor entry with the cursor's rectangle.
C13_EmptyBufferEntries ==
    ( /\ lay.pc = "done" /\ lay.p.selected /\ ~lay.p.buffer_null
      /\ lay.p.text = <<>> /\ lay.p.window_start = 1 /\ lay.p.point = 1
      /\ lay.p.cursor_type = 0
      /\ Cols(lay.p) >= 1 /\ RowsOf(lay.p) >= 1 ) =>
        /\ Len(DrawnEntries) = 4
        /\ DrawnEntries[1] = Entry("background", lay.p.bounds.x, lay.p.bounds.y,
                                   lay.p.bounds.width, lay.p.bounds.height, 0, -1)
        /\ DrawnEntries[2].kind = "stretch"
        /\ DrawnEntries[2].x = TextX(lay.p) /\ DrawnEntries[2].y = TextY(lay.p)
        /\ DrawnEntries[2].w = TextWidth(lay.p) /\ DrawnEntries[2].h = TextHeight(lay.p)
        /\ DrawnEntries[3] = Entry("cursor", TextX(lay.p), TextY(lay.p),
                                   lay.p.char_width, lay.p.char_height, 0, 0)
        /\ DrawnEntries[4] = Entry("cursor_inverse", TextX(lay.p), TextY(lay.p),
                                   lay.p.char_width, lay.p.char_height, 0, -1)

(***************************************************************************)
(* Further claims about gap_buffer_copy_text                                *)
(***************************************************************************)
IsPrefix(a, b) == Len(a) <= Len(b) /\ SubSeq(b, 1, Len(a)) = a

\* C14 as stated: copy_text only appends to the caller's buffer: what out held
\* before the call remains as its prefix, and when byte_from >= byte_to (or
\* the text pointer is null) out is left exactly as it was.
C14_CopyTextOnlyAppends ==
    gb.pc = "done" =>
        /\ IsPrefix(gb.out0, gb.out)
        /\ (gb.byte_from >= gb.byte_to \/ gb.text_null) => gb.out = gb.out0

\* C14 amended: copy_text replaces the contents of the caller's buffer: out is
\* cleared first, so nothing of what it held before the call remains; when
\* byte_from >= byte_to (or the text pointer is null) out is left empty, and
\* otherwise it holds one byte (two for a unibyte byte >= 0x80) per byte of
\* the range and nothing else.
C14_CopyTextReplacesOut ==
    gb.pc = "done" =>
        /\ (gb.byte_from >= gb.byte_to \/ gb.text_null) => gb.out = <<>>
        /\ (gb.byte_from < gb.byte_to /\ ~gb.text_null /\ gb.multibyte) =>
               Len(gb.out) = gb.byte_to - gb.byte_from
        /\ (gb.byte_from < gb.byte_to /\ ~gb.text_null /\ ~gb.multibyte) =>
               Len(gb.out) = (gb.byte_to - gb.byte_from)
                   + Cardinality({i \in gb.byte_from..(gb.byte_to - 1) :
                                      gb.text[i] >= 128})

\* C14 witness: the caller's buffer held a byte, and the call was made with
\* an empty range and with a range that is not.
C14_Witness ==
    /\ gb.pc = "done" /\ gb.out0 # <<>> /\ ~gb.text_null
    /\ gb.byte_from < gb.byte_to /\ Len(gb.out) = gb.byte_to - gb.byte_from

(***************************************************************************)
(* layout/emacs_types.rs: StructOffsets, OFFSETS, offsets, validate_offsets, *)
(* ensure_offsets_valid                                                     *)
(***************************************************************************)
BUFFER_LISP_FIELD_COUNT == 76
BUFFER_LISP_FIELDS_OFFSET == 8
TAB_WIDTH == 20
TRUNCATE_LINES == 28
WORD_WRAP == 29
SELECTIVE_DISPLAY == 35
ENABLE_MULTIBYTE_CHARACTERS == 41
PT_MARKER == 47
BEGV_MARKER == 48
ZV_MARKER == 49
PSEUDOVECTOR_AREA_BITS == 24
\* PSEUDOVECTOR_FLAG is 2^62; the table field holds the exponent here.
PSEUDOVECTOR_FLAG == 62
PVEC_WINDOW == 11
PVEC_BUFFER == 13

\* The table of a host with the struct layout the engine was written for. The
\* engine has hard-coded values for the fields validate_offsets compares; the
\* others are whatever offsetof() gives in that host.
HostTable ==
    [buf_text |-> 616, buf_pt |-> 624, buf_pt_byte |-> 632, buf_begv |-> 640,
     buf_begv_byte |-> 648, buf_zv |-> 656, buf_zv_byte |-> 664,
     buf_base_buffer |-> 672, buf_lisp_field_count |-> BUFFER_LISP_FIELD_COUNT,
     buftext_beg |-> 0, buftext_gpt |-> 8, buftext_z |-> 16,
     buftext_gpt_byte |-> 24, buftext_z_byte |-> 32, buftext_gap_size |-> 40,
     buf_tab_width |-> BUFFER_LISP_FIELDS_OFFSET + TAB_WIDTH * 8,
     buf_truncate_lines |-> BUFFER_LISP_FIELDS_OFFSET + TRUNCATE_LINES * 8,
     buf_enable_multibyte |-> BUFFER_LISP_FIELDS_OFFSET + ENABLE_MULTIBYTE_CHARACTERS * 8,
     buf_pt_marker |-> BUFFER_LISP_FIELDS_OFFSET + PT_MARKER * 8,
     buf_begv_marker |-> BUFFER_LISP_FIELDS_OFFSET + BEGV_MARKER * 8,
     buf_zv_marker |-> BUFFER_LISP_FIELDS_OFFSET + ZV_MARKER * 8,
     buf_word_wrap |-> BUFFER_LISP_FIELDS_OFFSET + WORD_WRAP * 8,
     buf_selective_display |-> BUFFER_LISP_FIELDS_OFFSET + SELECTIVE_DISPLAY * 8,
     win_frame |-> 8, win_next |-> 16, win_contents |-> 40,
     frame_root_window |-> 48, frame_selected_window |-> 56,
     frame_minibuffer_window |-> 64,
     pvec_window |-> PVEC_WINDOW, pvec_buffer |-> PVEC_BUFFER,
     pseudovector_area_bits |-> PSEUDOVECTOR_AREA_BITS,
     pseudovector_flag |-> PSEUDOVECTOR_FLAG]

OffsetFields == DOMAIN HostTable
\* The tables a host can report: that one, and the ones differing from it in
\* one field.
HostTables == {HostTable} \cup {[HostTable EXCEPT ![f] = @ + 8] : f \in OffsetFields}

ValidateOffsetsSkipsLispCountMutant(off) ==
    /\ off.buftext_beg = 0 /\ off.buftext_gpt = 8 /\ off.buftext_z = 16
    /\ off.buftext_gpt_byte = 24 /\ off.buftext_z_byte = 32
    /\ off.buftext_gap_size = 40
    /\ off.buf_tab_width = BUFFER_LISP_FIELDS_OFFSET + TAB_WIDTH * 8
    /\ off.buf_truncate_lines = BUFFER_LISP_FIELDS_OFFSET + TRUNCATE_LINES * 8
    /\ off.buf_enable_multibyte = BUFFER_LISP_FIELDS_OFFSET + ENABLE_MULTIBYTE_CHARACTERS * 8
    /\ off.buf_pt_marker = BUFFER_LISP_FIELDS_OFFSET + PT_MARKER * 8
    /\ off.buf_begv_marker = BUFFER_LISP_FIELDS_OFFSET + BEGV_MARKER * 8
    /\ off.buf_zv_marker = BUFFER_LISP_FIELDS_OFFSET + ZV_MARKER * 8
    /\ off.buf_word_wrap = BUFFER_LISP_FIELDS_OFFSET + WORD_WRAP * 8
    /\ off.buf_selective_display = BUFFER_LISP_FIELDS_OFFSET + SELECTIVE_DISPLAY * 8
    /\ off.pseudovector_area_bits = PSEUDOVECTOR_AREA_BITS
    /\ off.pseudovector_flag = PSEUDOVECTOR_FLAG
    /\ off.pvec_window = PVEC_WINDOW
    /\ off.pvec_buffer = PVEC_BUFFER

\* validate_offsets(off): TRUE when every assert_eq! passes, FALSE when one
\* panics.
ValidateOffsets(off) ==
    /\ off.buftext_beg = 0 /\ off.buftext_gpt = 8 /\ off.buftext_z = 16
    /\ off.buftext_gpt_byte = 24 /\ off.buftext_z_byte = 32
    /\ off.buftext_gap_size = 40
    /\ off.buf_lisp_field_count = BUFFER_LISP_FIELD_COUNT
    /\ off.buf_tab_width = BUFFER_LISP_FIELDS_OFFSET + TAB_WIDTH * 8
    /\ off.buf_truncate_lines = BUFFER_LISP_FIELDS_OFFSET + TRUNCATE_LINES * 8
    /\ off.buf_enable_multibyte = BUFFER_LISP_FIELDS_OFFSET + ENABLE_MULTIBYTE_CHARACTERS * 8
    /\ off.buf_pt_marker = BUFFER_LISP_FIELDS_OFFSET + PT_MARKER * 8
    /\ off.buf_begv_marker = BUFFER_LISP_FIELDS_OFFSET + BEGV_MARKER * 8
    /\ off.buf_zv_marker = BUFFER_LISP_FIELDS_OFFSET + ZV_MARKER * 8
    /\ off.buf_word_wrap = BUFFER_LISP_FIELDS_OFFSET + WORD_WRAP * 8
    /\ off.buf_selective_display = BUFFER_LISP_FIELDS_OFFSET + SELECTIVE_DISPLAY * 8
    /\ off.pseudovector_area_bits = PSEUDOVECTOR_AREA_BITS
    /\ off.pseudovector_flag = PSEUDOVECTOR_FLAG
    /\ off.pvec_window = PVEC_WINDOW
    /\ off.pvec_buffer = PVEC_BUFFER

Threads == 1..MaxThreads

\* ofs.cell is the OnceLock: "uninit", "running" (a thread is inside the
\* closure of get_or_init, the others wait) or "init" (ofs.value is set).
\* A thread is "idle" between calls; in a call of ensure_offsets_valid or of a
\* struct field reader (buf_text_ptr, win_next, ...) it is at "ensure" (before
\* OFFSETS.get()), "offsets" (before get_or_init), "closure" (after the host
\* query, before validate_offsets), "got" (offsets() returned) or "panicked".
OfsInit ==
    /\ windows = <<>> /\ winit_to_emacs = <<>> /\ pending_creates = <<>>
    /\ pending_destroys = <<>> /\ ret = FALSE /\ mwFailed = {}
    /\ mwLatest = <<>> /\ mwCoalesced = FALSE
    /\ gb = GbIdle /\ lay = LayIdle /\ wt = WtIdle /\ anim = AnimIdle /\ RestIdle
    /\ \E table \in HostTables :
           ofs = [pc |-> "run", table |-> table, cell |-> "uninit", value |-> None,
                  aborted |-> FALSE,
                  th |-> [t \in Threads |->
                             [pc |-> "idle", kind |-> "none", first |-> FALSE, n |-> 0]],
                  queries |-> 0, validations |-> 0, trues |-> 0, falses |-> 0,
                  readWith |-> {}]

ofsOthers == <<mwVars, gb, lay, wt, anim, rest>>

\* A thread enters ensure_offsets_valid or a struct field reader.
OfsCall(t, kind) ==
    /\ ofs.pc = "run" /\ ~ofs.aborted
    /\ ofs.th[t].pc = "idle" /\ ofs.th[t].n < MaxCalls
    /\ ofs' = [ofs EXCEPT !.th[t].pc = IF kind = "ensure" THEN "ensure" ELSE "offsets",
                          !.th[t].kind = kind]
    /\ UNCHANGED ofsOthers

\* let first = OFFSETS.get().is_none();
EnsureGet(t) ==
    /\ ofs.pc = "run" /\ ~ofs.aborted
    /\ ofs.th[t].pc = "ensure"
    /\ ofs' = [ofs EXCEPT !.th[t].first = (ofs.cell # "init"),
                          !.th[t].pc = "offsets"]
    /\ UNCHANGED ofsOthers

\* OFFSETS.get_or_init(..) finding the cell initialised.
OffsetsInitialised(t) ==
    /\ ofs.pc = "run" /\ ~ofs.aborted
    /\ ofs.th[t].pc = "offsets" /\ ofs.cell = "init"
    /\ ofs' = [ofs EXCEPT !.th[t].pc = "got"]
    /\ UNCHANGED ofsOthers

\* OFFSETS.get_or_init(..) finding the cell empty: the thread enters the
\* closure and asks the host for its table (neomacs_get_struct_offsets).
OffsetsQuery(t) ==
    /\ ofs.pc = "run" /\ ~ofs.aborted
    /\ ofs.th[t].pc = "offsets" /\ ofs.cell = "uninit"
    /\ ofs' = [ofs EXCEPT !.th[t].pc = "closure", !.cell = "running",
                          !.queries = @ + 1]
    /\ UNCHANGED ofsOthers

\* validate_offsets passes: the closure returns the table and the cell holds it.
OffsetsValidated(t) ==
    /\ ofs.pc = "run" /\ ~ofs.aborted
    /\ ofs.th[t].pc = "closure"
    /\ ValidateOffsets(ofs.table)
    /\ ofs' = [ofs EXCEPT !.th[t].pc = "got", !.cell = "init",
                          !.value = Some(ofs.table), !.validations = @ + 1]
    /\ UNCHANGED ofsOthers

\* validate_offsets panics: the cell stays empty; the panic unwinds the thread
\* or, where it may not unwind, aborts the process.
OffsetsPanic(t) ==
    /\ ofs.pc = "run" /\ ~ofs.aborted
    /\ ofs.th[t].pc = "closure"
    /\ ~ValidateOffsets(ofs.table)
    /\ \E abort \in BOOLEAN :
           ofs' = [ofs EXCEPT !.th[t].pc = "panicked", !.cell = "uninit",
                              !.validations = @ + 1, !.aborted = abort]
    /\ UNCHANGED ofsOthers

\* The call returns: ensure_offsets_valid returns `first`; a field reader
\* reads the struct field at the offset of the table it got.
OfsReturn(t) ==
    /\ ofs.pc = "run" /\ ~ofs.aborted
    /\ ofs.th[t].pc = "got"
    /\ ofs' = IF ofs.th[t].kind = "ensure"
              THEN [ofs EXCEPT !.th[t].pc = "idle", !.th[t].n = @ + 1,
                               !.trues = IF ofs.th[t].first THEN @ + 1 ELSE @,
                               !.falses = IF ofs.th[t].first THEN @ ELSE @ + 1]
              ELSE [ofs EXCEPT !.th[t].pc = "idle", !.th[t].n = @ + 1,
                               !.readWith = @ \cup {ofs.value[1]}]
    /\ UNCHANGED ofsOthers

OfsNext ==
    \E t \in Threads :
        \/ OfsCall(t, "ensure")
        \/ OfsCall(t, "read")
        \/ EnsureGet(t)
        \/ OffsetsInitialised(t)
        \/ OffsetsQuery(t)
        \/ OffsetsValidated(t)
        \/ OffsetsPanic(t)
        \/ OfsReturn(t)

SpecOffsets == OfsInit /\ [][OfsNext]_vars

(***************************************************************************)
(* Claims about the offsets singleton                                       *)
(***************************************************************************)
\* No call is in progress.
OfsQuiet == \A t \in Threads : ofs.th[t].pc = "idle"

\* C15: across all calls of ensure_offsets_valid, first calls racing from
\* several threads included, the host query and the validation run exactly
\* once, exactly one call returns true and every other call returns false.
C15_ExactlyOneFirstCall ==
    (ofs.pc = "run" /\ ofs.table = HostTable) =>
        /\ ofs.queries <= 1 /\ ofs.validations <= 1
        /\ ofs.trues <= 1
        /\ (OfsQuiet /\ ofs.trues + ofs.falses >= 1) =>
               ofs.queries = 1 /\ ofs.validations = 1 /\ ofs.trues = 1

\* The fields validate_offsets compares with the engine's hard-coded values.
ComparedFields ==
    {"buftext_beg", "buftext_gpt", "buftext_z", "buftext_gpt_byte",
     "buftext_z_byte", "buftext_gap_size", "buf_lisp_field_count",
     "buf_tab_width", "buf_truncate_lines", "buf_enable_multibyte",
     "buf_pt_marker", "buf_begv_marker", "buf_zv_marker", "buf_word_wrap",
     "buf_selective_display", "pseudovector_area_bits", "pseudovector_flag",
     "pvec_window", "pvec_buffer"}
DiffersIn(fields) == \E f \in fields : ofs.table[f] # HostTable[f]
\* Validation never let a table through: the singleton is empty, no call that
\* went through offsets() returned and no struct field was read with a table.
NothingAccepted ==
    /\ ofs.cell # "init" /\ ofs.value = None
    /\ ofs.readWith = {} /\ ofs.trues + ofs.falses = 0
    /\ \A t \in Threads : ofs.th[t].pc # "got"

StackCapacity == 64

\* A window graph: windows 1..n, each with its contents (0: a buffer, that is
\* a leaf; else its first child) and its next (0: nil; else its next sibling).
WindowGraphs(n) == [n : {n}, contents : [1..n -> 0..n], next : [1..n -> 0..n]]

\* The siblings from window c on, along next; -1 where more than fuel follow.
RECURSIVE SiblingChain(_, _, _)
SiblingChain(g, c, fuel) ==
    IF c = 0 THEN <<>>
    ELSE IF fuel = 0 THEN <<-1>>
    ELSE <<c>> \o SiblingChain(g, g.next[c], fuel - 1)
\* The windows below and including w, parents first; -1 where the descent
\* is deeper than fuel.
RECURSIVE Subtree(_, _, _)
RECURSIVE Subtrees(_, _, _)
Subtree(g, w, fuel) ==
    IF w = -1 \/ fuel = 0 THEN <<-1>>
    ELSE <<w>> \o Subtrees(g, SiblingChain(g, g.contents[w], g.n), fuel - 1)
Subtrees(g, ws, fuel) ==
    IF ws = <<>> THEN <<>>
    ELSE Subtree(g, Head(ws), fuel) \o Subtrees(g, Tail(ws), fuel)
\* g is a tree with root window 1: from the root every window is reached
\* once, and the root has no sibling.
IsTree(g) ==
    LET v == Subtree(g, 1, g.n)
    IN /\ g.next[1] = 0
       /\ Len(v) = g.n
       /\ {v[i] : i \in 1..Len(v)} = 1..g.n
SmallTrees == UNION {{g \in WindowGraphs(n) : IsTree(g)} : n \in 1..MaxWindows}
\* The graphs got from tree g by pointing one nil next, or the contents of one
\* leaf, at a window: graphs with a shared window or a cycle.
BentTrees(g) ==
    {[g EXCEPT !.next[w] = x] : w \in {v \in 2..g.n : g.next[v] = 0}, x \in 1..g.n}
        \cup {[g EXCEPT !.contents[w] = x] :
                   w \in {v \in 1..g.n : g.contents[v] = 0}, x \in 1..g.n}
\* The trees on at most MaxWindows windows and the graphs bent from them.
SmallGraphs == SmallTrees \cup UNION {BentTrees(g) : g \in SmallTrees}
\* The tree of a root window with k leaf children.
WideTree(k) ==
    [n |-> k + 1,
     contents |-> [w \in 1..(k + 1) |-> IF w = 1 THEN 2 ELSE 0],
     next |-> [w \in 1..(k + 1) |-> IF w = 1 \/ w = k + 1 THEN 0 ELSE w + 1]]
WideTrees == {WideTree(k) : k \in (StackCapacity - 1)..(StackCapacity + MaxOver)}

\* frame_has_minibuf_p(frame): the frame's minibuffer_window is a window and
\* that window's frame is this frame.
FrameHasMinibufP(mini) == mini.windowp /\ mini.frame = "this"

\* if sp < 64 { stack[sp] = child; sp += 1; }
PushChildUnboundedMutant(stack, child) == Append(stack, child)
PushChild(stack, child) ==
    IF Len(stack) < StackCapacity THEN Append(stack, child) ELSE stack

\* The count is kept exact up to CountCap, which is more than a walk that
\* visits no window twice can count; counts beyond it are not told apart.
CountCap(g) == g.n + 1

\* wt.stack holds stack[0..sp-1]. wt.pc: "call" (before the call), "outer" (at
\* the test of `while sp > 0`), "inner" (at the test of `while !child.is_null()`),
\* "done" (returned wt.ret). wt.root is 0 when the frame's root is no window.
\* wt.skipped: a child was not pushed because the stack was full.
WtInit ==
    /\ windows = <<>> /\ winit_to_emacs = <<>> /\ pending_creates = <<>>
    /\ pending_destroys = <<>> /\ ret = FALSE /\ mwFailed = {}
    /\ mwLatest = <<>> /\ mwCoalesced = FALSE
    /\ gb = GbIdle /\ lay = LayIdle /\ ofs = OfsIdle /\ anim = AnimIdle /\ RestIdle
    /\ \E g \in SmallGraphs \cup WideTrees :
       \E frame_null \in BOOLEAN, root \in {0, 1} :
       \E mini \in [windowp : BOOLEAN, frame : {"this", "other"}] :
           /\ (frame_null \/ root = 0) => (g.n = 1 /\ g.contents[1] = 0 /\ g.next[1] = 0)
           /\ wt = [pc |-> "call", g |-> g, frame_null |-> frame_null, root |-> root,
                    mini |-> mini, count |-> 0, stack |-> <<>>, child |-> 0,
                    ret |-> 0, skipped |-> FALSE]

wtOthers == <<mwVars, gb, lay, ofs, anim, rest>>

\* frame_window_count up to the first test of `while sp > 0` (lines 606-619).
WtEnter ==
    /\ wt.pc = "call"
    /\ wt' = IF wt.frame_null THEN [wt EXCEPT !.pc = "done", !.ret = 0]
             ELSE IF wt.root = 0 THEN [wt EXCEPT !.pc = "done", !.ret = 0]
             ELSE [wt EXCEPT !.pc = "outer", !.stack = <<wt.root>>]
    /\ UNCHANGED wtOthers

\* One pass of the outer loop up to the inner loop (lines 621-628, 641-644).
WtPop ==
    /\ wt.pc = "outer" /\ Len(wt.stack) > 0
    /\ LET w == wt.stack[Len(wt.stack)]
           popped == SubSeq(wt.stack, 1, Len(wt.stack) - 1)
           contents == wt.g.contents[w]
       IN wt' = IF contents # 0
                THEN [wt EXCEPT !.stack = popped, !.child = contents, !.pc = "inner"]
                ELSE [wt EXCEPT !.stack = popped, !.count = Min(@ + 1, CountCap(wt.g))]
    /\ UNCHANGED wtOthers

\* One pass of the inner loop (lines 629-640).
WtChild ==
    /\ wt.pc = "inner" /\ wt.child # 0
    /\ wt' = [wt EXCEPT !.stack = PushChild(@, wt.child),
                        !.skipped = @ \/ Len(wt.stack) >= StackCapacity,
                        !.child = wt.g.next[wt.child]]
    /\ UNCHANGED wtOthers

\* The inner loop ends: child is null.
WtChildrenDone ==
    /\ wt.pc = "inner" /\ wt.child = 0
    /\ wt' = [wt EXCEPT !.pc = "outer"]
    /\ UNCHANGED wtOthers

\* The outer loop ends; the minibuffer is counted; the count is returned
\* (lines 647-652).
WtReturn ==
    /\ wt.pc = "outer" /\ Len(wt.stack) = 0
    /\ wt' = [wt EXCEPT !.pc = "done",
                        !.ret = wt.count + IF FrameHasMinibufP(wt.mini) THEN 1 ELSE 0,
                        !.count = wt.count + IF FrameHasMinibufP(wt.mini) THEN 1 ELSE 0]
    /\ UNCHANGED wtOthers

WtNext == WtEnter \/ WtPop \/ WtChild \/ WtChildrenDone \/ WtReturn

SpecWalk == WtInit /\ [][WtNext]_vars

\* The walk is a sequential program: it takes its next step whenever it has one.
SpecWalkFair == SpecWalk /\ WF_vars(WtNext)

\* ---- Claims about frame_window_count ----

\* The leaf windows of tree g: the windows whose contents is no window.
Leaves(g) == Cardinality({w \in 1..g.n : g.contents[w] = 0})

\* C17: frame_window_count returns 0 for a null frame and for a root that is
\* no window; for a window tree on which no child was skipped for lack of
\* stack room it returns the number of leaf windows, plus one when the frame
\* owns its minibuffer window; and the stack index never exceeds the capacity
\* of 64.
C17_CountsLeavesWithinCapacity ==
    /\ wt.pc # "idle" => Len(wt.stack) <= StackCapacity
    /\ wt.pc = "done" =>
          /\ (wt.frame_null \/ wt.root = 0) => wt.ret = 0
          /\ (~wt.frame_null /\ wt.root # 0 /\ IsTree(wt.g) /\ ~wt.skipped) =>
                wt.ret = Leaves(wt.g) + IF FrameHasMinibufP(wt.mini) THEN 1 ELSE 0

\* The walk of the root with 64 leaf children returned, with nothing skipped,
\* on a frame that owns its minibuffer window.
C17_Witness ==
    /\ wt.pc = "done" /\ ~wt.frame_null /\ wt.root # 0
    /\ wt.g = WideTree(StackCapacity) /\ ~wt.skipped
    /\ FrameHasMinibufP(wt.mini)
    /\ wt.ret = StackCapacity + 1

\* C18: frame_window_count terminates on every window graph, graphs with a
\* cycle of next or contents pointers included.
C18_WalkTerminates == wt.pc # "idle" ~> wt.pc = "done"

\* ---- CursorAnimator (core/cursor_animation.rs) ----
\*
\* Coordinates are counted in steps of 1/Unit pixel. The interpolation factor
\* 1.0 - exp(-animation_speed * dt) is an input: in f32 it is 0 for a dt too
\* small for exp to differ from 1 (dt = 0 included), 1 for a dt so large that
\* exp underflows, and strictly between otherwise, of which 1/2 is taken. A
\* factor is only taken where the products are whole steps, so that the step
\* arithmetic is exact, as the f32 arithmetic is on these small dyadic values.
\* The particle, ring and trail collections are kept as "holds an item or
\* not"; whether an item is still alive at an update depends on the wall clock
\* alone, so it is an input of the update.

\* One mode of each kind: Wireframe spawns nothing, as Smooth; Pixiedust
\* spawns particles, as Railgun; Ripple spawns rings, as Sonicboom.
Modes == {"None", "Smooth", "Railgun", "Torpedo", "Sonicboom"}
Factors == {[num |-> 0, den |-> 1], [num |-> 1, den |-> 2], [num |-> 1, den |-> 1]}
PositiveFactors == {f \in Factors : f.num > 0}

Abs(x) == IF x < 0 THEN 0 - x ELSE x
\* |d| < 0.5 and |d| > 0.5 pixel, for d in steps.
WithinHalf(d) == 2 * Abs(d) < Unit
BeyondHalf(d) == 2 * Abs(d) > Unit

\* The arguments of set_target: x, y, width, height in steps.
TargetXs == {0, 1, Unit}
TargetYs == {0, Unit}
TargetWidths == {8 * Unit, 8 * Unit + 2}
TargetHeights == {16 * Unit}

\* CursorAnimator::new()
AnimNew ==
    [pc |-> "run", mode |-> "Smooth",
     target_x |-> 0, target_y |-> 0,
     target_width |-> 8 * Unit, target_height |-> 16 * Unit,
     current_x |-> 0, current_y |-> 0,
     current_width |-> 8 * Unit, current_height |-> 16 * Unit,
     particles |-> FALSE, rings |-> FALSE, trail |-> FALSE,
     animating |-> FALSE, op |-> "new", ret |-> FALSE, frame |-> 0]
\* anim.op is the last call made and anim.ret what it returned, FALSE where it
\* returns nothing; anim.frame is the parity of the number of updates made, so
\* that an update that moves nothing is a step all the same.

\* on_cursor_move, dx and dy being target - last_target of the move.
OnCursorMove(a, dx, dy) ==
    LET moving == [a EXCEPT !.animating = TRUE]
    IN IF dx * dx + dy * dy < Unit * Unit THEN moving
       ELSE CASE a.mode \in {"Railgun", "Pixiedust"} -> [moving EXCEPT !.particles = TRUE]
              [] a.mode = "Torpedo" -> [moving EXCEPT !.trail = TRUE]
              [] a.mode \in {"Sonicboom", "Ripple"} -> [moving EXCEPT !.rings = TRUE]
              [] OTHER -> moving

\* set_target(x, y, width, height, ..)
SetTarget(a, x, y, width, height) ==
    LET moved == BeyondHalf(a.target_x - x) \/ BeyondHalf(a.target_y - y)
        set == [a EXCEPT !.target_x = x, !.target_y = y,
                         !.target_width = width, !.target_height = height]
    IN IF moved THEN OnCursorMove(set, x - a.target_x, y - a.target_y) ELSE set

\* current += (target - current) * factor
Blend(current, target, f) == current + ((target - current) * f.num) \div f.den
Exact(current, target, f) == ((target - current) * f.num) % f.den = 0
ExactFor(a, f) ==
    /\ Exact(a.current_x, a.target_x, f) /\ Exact(a.current_y, a.target_y, f)
    /\ Exact(a.current_width, a.target_width, f)
    /\ Exact(a.current_height, a.target_height, f)

\* The cursor movement of update / update_with_dt (lines 529-553).
MoveCursorKeepsAnimatingMutant(a, f) ==
    IF a.mode # "None"
    THEN LET m == [a EXCEPT !.current_x = Blend(@, a.target_x, f),
                            !.current_y = Blend(@, a.target_y, f),
                            !.current_width = Blend(@, a.target_width, f),
                            !.current_height = Blend(@, a.target_height, f)]
         IN IF WithinHalf(m.target_x - m.current_x) /\ WithinHalf(m.target_y - m.current_y)
            THEN [m EXCEPT !.current_x = m.target_x, !.current_y = m.target_y]
            ELSE m
    ELSE [a EXCEPT !.current_x = a.target_x, !.current_y = a.target_y,
                   !.current_width = a.target_width,
                   !.current_height = a.target_height, !.animating = FALSE]
MoveCursor(a, f) ==
    IF a.mode # "None"
    THEN LET m == [a EXCEPT !.current_x = Blend(@, a.target_x, f),
                            !.current_y = Blend(@, a.target_y, f),
                            !.current_width = Blend(@, a.target_width, f),
                            !.current_height = Blend(@, a.target_height, f)]
         IN IF WithinHalf(m.target_x - m.current_x) /\ WithinHalf(m.target_y - m.current_y)
            THEN [m EXCEPT !.current_x = m.target_x, !.current_y = m.target_y,
                           !.animating = FALSE]
            ELSE m
    ELSE [a EXCEPT !.current_x = a.target_x, !.current_y = a.target_y,
                   !.current_width = a.target_width,
                   !.current_height = a.target_height, !.animating = FALSE]

\* The rest of update / update_with_dt (lines 555-577): the dead items are
\* dropped (keep.particles: a particle is still alive, ..), torpedo adds a
\* trail point while animating, and the activity is returned.
UpdateEffects(a, keep) ==
    LET kept == [a EXCEPT !.particles = @ /\ keep.particles,
                          !.rings = @ /\ keep.rings,
                          !.trail = @ /\ keep.trail]
        trailed == IF kept.mode = "Torpedo" /\ kept.animating
                   THEN [kept EXCEPT !.trail = TRUE] ELSE kept
    IN [trailed EXCEPT !.ret = trailed.animating \/ trailed.particles
                                  \/ trailed.rings \/ trailed.trail,
                       !.frame = 1 - @]

Keeps == [particles : BOOLEAN, rings : BOOLEAN, trail : BOOLEAN]

AnimInit ==
    /\ windows = <<>> /\ winit_to_emacs = <<>> /\ pending_creates = <<>>
    /\ pending_destroys = <<>> /\ ret = FALSE /\ mwFailed = {}
    /\ mwLatest = <<>> /\ mwCoalesced = FALSE
    /\ gb = GbIdle /\ lay = LayIdle /\ ofs = OfsIdle /\ wt = WtIdle
    /\ anim = AnimNew /\ RestIdle

animOthers == <<mwVars, gb, lay, ofs, wt, rest>>

AnimSetTarget ==
    /\ anim.pc = "run"
    /\ \E x \in TargetXs, y \in TargetYs, w \in TargetWidths, h \in TargetHeights :
           anim' = [SetTarget(anim, x, y, w, h) EXCEPT !.op = "set_target", !.ret = FALSE]
    /\ UNCHANGED animOthers

\* set_mode(mode)
AnimSetMode ==
    /\ anim.pc = "run"
    /\ \E m \in Modes :
           anim' = [anim EXCEPT !.mode = m, !.particles = FALSE, !.rings = FALSE,
                                !.trail = FALSE, !.op = "set_mode", !.ret = FALSE]
    /\ UNCHANGED animOthers

\* update(): dt is the time since the last update.
AnimUpdate ==
    /\ anim.pc = "run"
    /\ \E f \in Factors, keep \in Keeps :
           /\ ExactFor(anim, f)
           /\ anim' = [UpdateEffects(MoveCursor(anim, f), keep) EXCEPT !.op = "update"]
    /\ UNCHANGED animOthers

\* update_with_dt(dt) whose dt gives the factor f.
UpdateWithDt(f) ==
    /\ anim.pc = "run"
    /\ ExactFor(anim, f)
    /\ \E keep \in Keeps :
           anim' = [UpdateEffects(MoveCursor(anim, f), keep) EXCEPT !.op = "update_with_dt"]
    /\ UNCHANGED animOthers

AnimUpdateWithDt == \E f \in Factors : UpdateWithDt(f)

AnimNext == AnimSetTarget \/ AnimSetMode \/ AnimUpdate \/ AnimUpdateWithDt

SpecAnim == AnimInit /\ [][AnimNext]_vars

\* The animator is driven: update_with_dt keeps being called.
SpecAnimFair == SpecAnim /\ WF_vars(AnimUpdateWithDt)

\* ---- Claims about the CursorAnimator ----

Updated == anim.pc = "run" /\ anim.op \in {"update", "update_with_dt"}
CurrentAtTarget ==
    /\ anim.current_x = anim.target_x /\ anim.current_y = anim.target_y
    /\ anim.current_width = anim.target_width
    /\ anim.current_height = anim.target_height
EffectsLive == anim.particles \/ anim.rings \/ anim.trail

\* C19: after any sequence of set_target and update / update_with_dt calls, an
\* update returns true exactly when, after it, the current cursor (x, y, width,
\* height) differs from the target or a particle, ring or trail point is live.
C19_ActiveIffOffTargetOrEffects ==
    Updated => (anim.ret <=> (~CurrentAtTarget \/ EffectsLive))

\* The half of C19 that the animator keeps: a true return means that the
\* cursor is off its target or an effect is live.
C19_ActiveOnlyIfOffTargetOrEffects ==
    Updated => (anim.ret => (~CurrentAtTarget \/ EffectsLive))

\* current' lies between current and target: the target is not passed and the
\* distance to it has not grown.
Toward(current, next, target) ==
    \/ current <= next /\ next <= target
    \/ target <= next /\ next <= current

\* The cursor is at rest on its target position.
Settled ==
    /\ anim.current_x = anim.target_x /\ anim.current_y = anim.target_y
    /\ ~anim.animating

\* What one update_with_dt call in a mode other than None does to the cursor.
UpdateMovesToward ==
    (anim.pc = "run" /\ anim'.op = "update_with_dt" /\ anim.mode # "None") =>
        /\ Toward(anim.current_x, anim'.current_x, anim.target_x)
        /\ Toward(anim.current_y, anim'.current_y, anim.target_y)
        /\ Toward(anim.current_width, anim'.current_width, anim.target_width)
        /\ Toward(anim.current_height, anim'.current_height, anim.target_height)
        /\ (WithinHalf(anim.target_x - anim.current_x)
               /\ WithinHalf(anim.target_y - anim.current_y)) =>
              (anim'.current_x = anim.target_x /\ anim'.current_y = anim.target_y
                  /\ ~anim'.animating)
        /\ (anim.current_x = anim.target_x /\ anim.current_y = anim.target_y
               /\ ~anim.animating) =>
              (anim'.current_x = anim.target_x /\ anim'.current_y = anim.target_y
                  /\ ~anim'.animating)

\* From some point on the only calls are update_with_dt: the target and the
\* mode are held fixed.
TargetHeld == <>[][anim'.op = "update_with_dt"]_anim
\* An update_with_dt whose factor is at least 1/2.
UpdateWithSteadyDt == \E f \in PositiveFactors : UpdateWithDt(f)

RECURSIVE PowerOfTwo(_)
PowerOfTwo(n) == IF n = 0 THEN 1 ELSE 2 * PowerOfTwo(n - 1)
IsizeMin == 0 - PowerOfTwo(IsizeBits - 1)
IsizeMax == PowerOfTwo(IsizeBits - 1) - 1
Isize == IsizeMin..IsizeMax
\* Two's-complement wrap-around of a sum that left the isize range.
WrapIsize(x) == ((x - IsizeMin) % PowerOfTwo(IsizeBits)) + IsizeMin

\* isize::rem_euclid for a positive divisor.
RemEuclid(a, h) == a % h

\* actual_row(y)
ActualRow(g, y) == RemEuclid(y + g.scroll_offset, g.height)
\* get_cell(0, y) for y < height: the text of logical row y.
GetCell(g, y) == g.lines[ActualRow(g, y) + 1].text
\* The texts of the logical rows, top row first.
LogicalView(g) == [y \in 1..g.height |-> GetCell(g, y - 1)]

\* CharacterGrid::new(1, height)
GridNew(height) ==
    [pc |-> "run", height |-> height,
     lines |-> [i \in 1..height |-> [text |-> 0, dirty |-> TRUE]],
     scroll_offset |-> 0, op |-> "new", ks |-> <<>>,
     base |-> [y \in 1..height |-> 0]]

GridInit ==
    /\ windows = <<>> /\ winit_to_emacs = <<>> /\ pending_creates = <<>>
    /\ pending_destroys = <<>> /\ ret = FALSE /\ mwFailed = {}
    /\ mwLatest = <<>> /\ mwCoalesced = FALSE
    /\ gb = GbIdle /\ lay = LayIdle /\ ofs = OfsIdle /\ wt = WtIdle
    /\ anim = AnimIdle /\ fx = FxIdle /\ bt = BtIdle /\ MoreIdle
    /\ \E height \in 1..MaxHeight : grid = GridNew(height)

gridOthers == <<mwVars, gb, lay, ofs, wt, anim, fx, bt, more>>

\* set_cell(0, y, text, ..)
GridSetCell ==
    /\ grid.pc = "run"
    /\ \E y \in 0..(grid.height - 1), text \in {0, 1} :
         \E g \in {[grid EXCEPT !.lines[ActualRow(grid, y) + 1] =
                                    [text |-> text, dirty |-> TRUE]]} :
           grid' = [g EXCEPT !.op = "set_cell", !.ks = <<>>, !.base = LogicalView(g)]
    /\ UNCHANGED gridOthers

\* mark_row_clean(y)
GridMarkRowClean ==
    /\ grid.pc = "run"
    /\ \E y \in 0..(grid.height - 1) :
           grid' = [grid EXCEPT !.lines[ActualRow(grid, y) + 1].dirty = FALSE,
                                !.op = "mark_row_clean", !.ks = <<>>,
                                !.base = LogicalView(grid)]
    /\ UNCHANGED gridOthers

\* scroll(rows) where scroll_offset + rows is an isize.
GridScroll ==
    /\ grid.pc = "run" /\ Len(grid.ks) < MaxScrolls
    /\ \E rows \in Isize :
           /\ grid.scroll_offset + rows \in Isize
           /\ grid' = [grid EXCEPT
                         !.scroll_offset = RemEuclid(grid.scroll_offset + rows, grid.height),
                         !.lines = [i \in 1..grid.height |-> [@[i] EXCEPT !.dirty = TRUE]],
                         !.op = "scroll", !.ks = Append(@, rows)]
    /\ UNCHANGED gridOthers

\* scroll(rows) where scroll_offset + rows overflows: a build with overflow
\* checks panics, one without them wraps the sum around.
GridScrollOverflow ==
    /\ grid.pc = "run" /\ Len(grid.ks) < MaxScrolls
    /\ \E rows \in Isize :
           /\ grid.scroll_offset + rows \notin Isize
           /\ \/ grid' = [grid EXCEPT !.pc = "panicked", !.op = "scroll",
                                        !.ks = Append(@, rows)]
              \/ grid' = [grid EXCEPT
                            !.scroll_offset =
                                RemEuclid(WrapIsize(grid.scroll_offset + rows), grid.height),
                            !.lines = [i \in 1..grid.height |-> [@[i] EXCEPT !.dirty = TRUE]],
                            !.op = "scroll", !.ks = Append(@, rows)]
    /\ UNCHANGED gridOthers

GridNext == GridSetCell \/ GridMarkRowClean \/ GridScroll \/ GridScrollOverflow

SpecGrid == GridInit /\ [][GridNext]_vars

\* ---- Claims about CharacterGrid::scroll ----

\* The scrolls made since the last other call, the grid still running.
Scrolled == grid.pc = "run" /\ grid.op = "scroll"
\* Logical row y (from 0) shows what logical row (y + k) mod h showed in view.
ShowsShifted(view, k) ==
    \A y \in 0..(grid.height - 1) :
        GetCell(grid, y) = view[((y + k) % grid.height) + 1]

\* C30: for a grid of height h >= 1 and any integer k, after scroll(k) logical
\* row y shows the content that was at logical row (y + k) mod h; scroll(k)
\* followed by scroll(-k) restores the content of every cell; scroll(h) leaves
\* all content where it was. A scroll that does not return shows nothing.
C30_ScrollShiftsRows ==
    /\ grid.pc # "idle" => grid.pc = "run"
    /\ (Scrolled /\ Len(grid.ks) = 1) => ShowsShifted(grid.base, grid.ks[1])
    /\ (Scrolled /\ Len(grid.ks) = 2 /\ grid.ks[2] = 0 - grid.ks[1]) =>
          ShowsShifted(grid.base, 0)
    /\ (Scrolled /\ Len(grid.ks) = 1 /\ grid.ks[1] = grid.height) =>
          ShowsShifted(grid.base, 0)

\* C30 for the scrolls whose sum with the scroll offset is an isize.
C30_ScrollShiftsRowsInRange ==
    (Scrolled /\ \A i \in 1..Len(grid.ks) : grid.ks[i] + grid.height - 1 \in Isize) =>
        /\ Len(grid.ks) = 1 => ShowsShifted(grid.base, grid.ks[1])
        /\ (Len(grid.ks) = 2 /\ grid.ks[2] = 0 - grid.ks[1]) => ShowsShifted(grid.base, 0)
        /\ (Len(grid.ks) = 1 /\ grid.ks[1] = grid.height) => ShowsShifted(grid.base, 0)

\* ---- Durations as f32 seconds (Duration::as_secs_f32) ----
\*
\* Durations are whole nanoseconds below one second. as_secs_f32 is
\* (secs as f32) + (nanos as f32) / (NANOS_PER_SEC as f32): two roundings to
\* the 24-bit significand of f32, the first of the nanosecond count, the
\* second of the quotient. A positive f32 is kept as [m, e] for m * 2^(-e) with
\* 2^23 <= m < 2^24, zero as [m |-> 0, e |-> 0].

NanosPerSec == 1000000000
F32Bits == 24

RECURSIVE BitLength(_)
BitLength(n) == IF n = 0 THEN 0 ELSE 1 + BitLength(n \div 2)

\* q or q + 1: the quotient with remainder r of a division by d, rounded to
\* the nearest, ties to even.
RoundHalfEven(q, r, d) ==
    IF 2 * r > d \/ (2 * r = d /\ q % 2 = 1) THEN q + 1 ELSE q

\* nanos as f32, for a u32 below 2^30: the nearest integer of 24 significant bits.
U32AsF32(n) ==
    IF BitLength(n) <= F32Bits THEN n
    ELSE LET p == PowerOfTwo(BitLength(n) - F32Bits)
         IN RoundHalfEven(n \div p, n % p, p) * p

\* The quotient bits of r / d after the significand m, until m has 24 bits.
RECURSIVE DivBits(_, _, _, _)
DivBits(m, r, e, d) ==
    IF m >= PowerOfTwo(F32Bits - 1) THEN [m |-> m, r |-> r, e |-> e]
    ELSE IF 2 * r >= d THEN DivBits(2 * m + 1, 2 * r - d, e + 1, d)
    ELSE DivBits(2 * m, 2 * r, e + 1, d)

\* x / d in f32, for integers 0 <= x <= d that are f32 values themselves.
DivF32(x, d) ==
    IF x = 0 THEN [m |-> 0, e |-> 0]
    ELSE LET b == DivBits(x \div d, x % d, 0, d)
             m == RoundHalfEven(b.m, b.r, d)
         IN IF m = PowerOfTwo(F32Bits) THEN [m |-> m \div 2, e |-> b.e - 1]
            ELSE [m |-> m, e |-> b.e]

F32Less(a, b) ==
    IF a.m = 0 \/ b.m = 0 THEN a.m < b.m
    ELSE a.e > b.e \/ (a.e = b.e /\ a.m < b.m)

\* Duration::as_secs_f32 of a duration of ns nanoseconds, ns below a second.
AsSecsF32(ns) == DivF32(U32AsF32(ns), NanosPerSec)

\* a.as_secs_f32() / b.as_secs_f32() >= 1.0, for a duration b below a second.
\* The conversion is monotone, so a >= b gives a quotient of at least 1; two
\* different f32 values below each other give a quotient of at most
\* 1 - 2^-24, which is an f32 below 1. With b = 0 the quotient is NaN for
\* a = 0 and infinite otherwise.
RatioAtLeastOne(a, b) ==
    IF b = 0 THEN a > 0
    ELSE IF a >= b THEN TRUE
    ELSE ~F32Less(AsSecsF32(a), AsSecsF32(b))

\* ---- TransitionEasing::apply (core/buffer_transition.rs) ----
\*
\* The argument is n / EaseSteps; the result is kept as the numerator of a
\* fraction over EaseDen, computed exactly.

EaseBackC1 == 170158
EaseBackScale == 100000
EaseDen == EaseBackScale * EaseSteps * EaseSteps * EaseSteps
Easings == {"Linear", "EaseIn", "EaseOut", "EaseInOut", "EaseOutBack"}

\* t.clamp(0.0, 1.0)
ClampUnit(n) == IF n < 0 THEN 0 ELSE IF n > EaseSteps THEN EaseSteps ELSE n
Cube(x) == x * x * x

\* The formula of each easing at t = n / EaseSteps, already clamped.
EaseOutBackNoOvershootMutant(easing, n) ==
    CASE easing = "Linear" -> n * EaseSteps * EaseSteps * EaseBackScale
      [] easing = "EaseIn" -> Cube(n) * EaseBackScale
      [] easing = "EaseOut" -> EaseDen - Cube(EaseSteps - n) * EaseBackScale
      [] easing = "EaseInOut" ->
            IF 2 * n < EaseSteps THEN 4 * Cube(n) * EaseBackScale
            ELSE EaseDen - (Cube(2 * EaseSteps - 2 * n) \div 2) * EaseBackScale
      [] easing = "EaseOutBack" -> EaseDen - Cube(EaseSteps - n) * EaseBackScale
Eased(easing, n) ==
    CASE easing = "Linear" -> n * EaseSteps * EaseSteps * EaseBackScale
      [] easing = "EaseIn" -> Cube(n) * EaseBackScale
      [] easing = "EaseOut" -> EaseDen - Cube(EaseSteps - n) * EaseBackScale
      [] easing = "EaseInOut" ->
            IF 2 * n < EaseSteps THEN 4 * Cube(n) * EaseBackScale
            ELSE EaseDen - (Cube(2 * EaseSteps - 2 * n) \div 2) * EaseBackScale
      [] easing = "EaseOutBack" ->
            EaseDen + (EaseBackC1 + EaseBackScale) * Cube(n - EaseSteps)
                + EaseBackC1 * (n - EaseSteps) * (n - EaseSteps) * EaseSteps

\* TransitionEasing::apply
Apply(easing, n) == Eased(easing, ClampUnit(n))

\* One apply call: bt.n / EaseSteps is the argument, bt.value / EaseDen the
\* result once bt.applied.
EasingInit ==
    /\ windows = <<>> /\ winit_to_emacs = <<>> /\ pending_creates = <<>>
    /\ pending_destroys = <<>> /\ ret = FALSE /\ mwFailed = {}
    /\ mwLatest = <<>> /\ mwCoalesced = FALSE
    /\ gb = GbIdle /\ lay = LayIdle /\ ofs = OfsIdle /\ wt = WtIdle
    /\ anim = AnimIdle /\ fx = FxIdle /\ grid = GridIdle /\ MoreIdle
    /\ \E easing \in Easings, n \in (0 - MaxOutside)..(EaseSteps + MaxOutside) :
           bt = [pc |-> "easing", easing |-> easing, n |-> n,
                 applied |-> FALSE, value |-> 0]

btOthers == <<mwVars, gb, lay, ofs, wt, anim, fx, grid, more>>

EasingApply ==
    /\ bt.pc = "easing" /\ ~bt.applied
    /\ bt' = [bt EXCEPT !.applied = TRUE, !.value = Apply(bt.easing, bt.n)]
    /\ UNCHANGED btOthers

SpecEasing == EasingInit /\ [][EasingApply]_vars

\* ---- Claims about TransitionEasing::apply ----

EasingApplied == bt.pc = "easing" /\ bt.applied
\* apply(0) = 0, apply(1) = 1, and an argument outside [0, 1] gives what the
\* nearer end gives.
EndsAndClamp ==
    /\ bt.n <= 0 => bt.value = 0
    /\ bt.n >= EaseSteps => bt.value = EaseDen

DefaultDuration == 200000000
\* One effect of each kind that start_transition_with tells apart.
Effects == {"None", "Crossfade", "SlideUp"}
Directions == {"Left", "Up"}
BtInstants ==
    {0, DefaultDuration \div 2, DefaultDuration - 8, DefaultDuration,
     DefaultDuration + DefaultDuration \div 2, 2 * DefaultDuration}
BtLastInstant == 2 * DefaultDuration

\* progress 0.0 and progress 1.0
ProgressZero == [easing |-> "Linear", elapsed |-> 0, duration |-> 1]
ProgressOne == [easing |-> "Linear", elapsed |-> 1, duration |-> 1]

\* BufferTransition::new(effect, direction, duration) at time now
NewTransition(effect, direction, duration, now) ==
    [effect |-> effect, direction |-> direction, progress |-> ProgressZero,
     duration |-> duration, start_time |-> now, easing |-> "EaseOut",
     completed |-> FALSE, old_width |-> 0, old_height |-> 0]

\* easing.apply(raw_progress), raw_progress being elapsed / duration.
EasedProgress(easing, elapsed, duration) ==
    IF elapsed = 0 THEN ProgressZero
    ELSE [easing |-> easing, elapsed |-> elapsed, duration |-> duration]

\* raw_progress >= 1.0, raw_progress being elapsed.as_secs_f32() /
\* duration.as_secs_f32(). The times that can elapse on the clock of the model
\* are decided once for the default duration.
ElapsedTimes == {later - earlier : earlier, later \in BtInstants} \cap Nat
CompleteAfter == {elapsed \in ElapsedTimes : RatioAtLeastOne(elapsed, DefaultDuration)}
RawProgressAtLeastOne(elapsed, duration) ==
    IF duration = DefaultDuration /\ elapsed \in ElapsedTimes
    THEN elapsed \in CompleteAfter
    ELSE RatioAtLeastOne(elapsed, duration)

\* BufferTransition::update at time now: the transition after it and the
\* value returned.
TransitionUpdate(t, now) ==
    IF t.completed THEN [t |-> t, ret |-> FALSE]
    ELSE LET elapsed == now - t.start_time
         IN IF RawProgressAtLeastOne(elapsed, t.duration)
            THEN [t |-> [t EXCEPT !.progress = ProgressOne, !.completed = TRUE], ret |-> FALSE]
            ELSE [t |-> [t EXCEPT !.progress =
                                    EasedProgress(t.easing, elapsed, t.duration)],
                  ret |-> TRUE]

\* BufferTransitionAnimator::new()
BtNew ==
    [pc |-> "run", now |-> 0, default_effect |-> "Crossfade",
     default_duration |-> DefaultDuration, active |-> <<>>,
     has_snapshot |-> FALSE, op |-> "new", ret |-> FALSE, arg |-> <<>>,
     before |-> [active |-> <<>>, has_snapshot |-> FALSE], frame |-> 0]

\* The animator as a call finds it.
Before(a) == [active |-> a.active, has_snapshot |-> a.has_snapshot]

\* start_transition_with(effect, direction)
StartTransitionKeepsInFlightMutant(a, effect, direction) ==
    IF effect = "None" THEN [a EXCEPT !.active = <<>>]
    ELSE IF a.active # <<>> THEN a
    ELSE [a EXCEPT !.active =
              <<NewTransition(effect, direction, a.default_duration, a.now)>>]
StartTransitionWith(a, effect, direction) ==
    IF effect = "None" THEN [a EXCEPT !.active = <<>>]
    ELSE [a EXCEPT !.active =
              <<NewTransition(effect, direction, a.default_duration, a.now)>>]

\* BufferTransitionAnimator::update
AnimatorUpdate(a) ==
    IF a.active # <<>>
    THEN LET u == TransitionUpdate(a.active[1], a.now)
         IN IF ~u.ret
            THEN [a EXCEPT !.active = <<>>, !.has_snapshot = FALSE, !.ret = FALSE]
            ELSE [a EXCEPT !.active = <<u.t>>, !.ret = TRUE]
    ELSE [a EXCEPT !.ret = FALSE]

BtInit ==
    /\ windows = <<>> /\ winit_to_emacs = <<>> /\ pending_creates = <<>>
    /\ pending_destroys = <<>> /\ ret = FALSE /\ mwFailed = {}
    /\ mwLatest = <<>> /\ mwCoalesced = FALSE
    /\ gb = GbIdle /\ lay = LayIdle /\ ofs = OfsIdle /\ wt = WtIdle
    /\ anim = AnimIdle /\ fx = FxIdle /\ grid = GridIdle /\ MoreIdle
    /\ bt = BtNew

\* Time passes.
BtAdvance ==
    /\ bt.pc = "run"
    /\ \E now \in BtInstants :
           /\ now > bt.now
           /\ bt' = [bt EXCEPT !.now = now, !.op = "tick", !.ret = FALSE,
                               !.arg = <<>>, !.before = Before(bt)]
    /\ UNCHANGED btOthers

\* A transition is started only where the clock of the model reaches its end.
CanStart == bt.now + bt.default_duration <= BtLastInstant

BtStartTransition ==
    /\ bt.pc = "run" /\ CanStart
    /\ bt' = [StartTransitionWith(bt, bt.default_effect, "Left") EXCEPT
                  !.op = "start_transition", !.ret = FALSE,
                  !.arg = <<bt.default_effect, "Left">>, !.before = Before(bt)]
    /\ UNCHANGED btOthers

BtStartTransitionWith ==
    /\ bt.pc = "run" /\ CanStart
    /\ \E effect \in Effects, direction \in Directions :
           bt' = [StartTransitionWith(bt, effect, direction) EXCEPT
                     !.op = "start_transition_with", !.ret = FALSE,
                     !.arg = <<effect, direction>>, !.before = Before(bt)]
    /\ UNCHANGED btOthers

\* set_default_effect(effect)
BtSetDefaultEffect ==
    /\ bt.pc = "run"
    /\ \E effect \in Effects :
           bt' = [bt EXCEPT !.default_effect = effect, !.op = "set_default_effect",
                            !.ret = FALSE, !.arg = <<effect>>, !.before = Before(bt)]
    /\ UNCHANGED btOthers

\* request_snapshot()
BtRequestSnapshot ==
    /\ bt.pc = "run"
    /\ bt' = [bt EXCEPT !.has_snapshot = FALSE, !.op = "request_snapshot",
                        !.ret = FALSE, !.arg = <<>>, !.before = Before(bt)]
    /\ UNCHANGED btOthers

\* snapshot_captured(800.0, 600.0)
BtSnapshotCaptured ==
    /\ bt.pc = "run"
    /\ bt' = [bt EXCEPT
                 !.has_snapshot = TRUE,
                 !.active = IF @ = <<>> THEN @
                            ELSE <<[@[1] EXCEPT !.old_width = 800, !.old_height = 600]>>,
                 !.op = "snapshot_captured", !.ret = FALSE, !.arg = <<800, 600>>,
                 !.before = Before(bt)]
    /\ UNCHANGED btOthers

\* update()
BtUpdate ==
    /\ bt.pc = "run"
    /\ \E updated \in {AnimatorUpdate(bt)} :
           bt' = [updated EXCEPT !.op = "update", !.arg = <<>>,
                                 !.before = Before(bt), !.frame = 1 - @]
    /\ UNCHANGED btOthers

BtNext ==
    \/ BtAdvance \/ BtStartTransition \/ BtStartTransitionWith
    \/ BtSetDefaultEffect \/ BtRequestSnapshot \/ BtSnapshotCaptured \/ BtUpdate

SpecTransition == BtInit /\ [][BtNext]_vars

\* update keeps being called as time advances.
SpecTransitionFair == SpecTransition /\ WF_vars(BtUpdate) /\ WF_vars(BtAdvance)

\* A call of start_transition_with has just returned.
StartedWith == bt.pc = "run" /\ bt.op = "start_transition_with"

\* C27: the animator holds at most one transition. After
\* start_transition_with(e, d) with e other than None the active transition
\* is a fresh one, whatever was in flight: progress 0, not completed, effect e,
\* direction d, the default duration, started now. With e = None no
\* transition is active afterwards.
C27_StartReplacesInFlight ==
    bt.pc = "run" =>
        /\ Len(bt.active) <= 1
        /\ StartedWith =>
               IF bt.arg[1] = "None" THEN bt.active = <<>>
               ELSE /\ Len(bt.active) = 1
                    /\ bt.active[1].progress = ProgressZero
                    /\ ~bt.active[1].completed
                    /\ bt.active[1].effect = bt.arg[1]
                    /\ bt.active[1].direction = bt.arg[2]
                    /\ bt.active[1].duration = bt.default_duration
                    /\ bt.active[1].start_time = bt.now

\* A start replaced a transition that was part way through, with another
\* effect.
C27_Witness ==
    /\ StartedWith
    /\ bt.arg[1] # "None"
    /\ bt.before.active # <<>>
    /\ bt.before.active[1].progress \notin {ProgressZero, ProgressOne}
    /\ bt.before.active[1].effect # bt.arg[1]
    /\ bt.active[1].start_time > bt.before.active[1].start_time

\* A call of update has just returned.
BtUpdated == bt.pc = "run" /\ bt.op = "update"

\* What the claim says of an update that found the animator as bt.before.
UpdateByElapsed ==
    IF bt.before.active = <<>>
    THEN /\ ~bt.ret
         /\ bt.active = <<>>
         /\ bt.has_snapshot = bt.before.has_snapshot
    ELSE LET t == bt.before.active[1]
             elapsed == bt.now - t.start_time
         IN IF elapsed < t.duration
            THEN /\ bt.ret
                 /\ Len(bt.active) = 1
                 /\ bt.active[1].progress = EasedProgress(t.easing, elapsed, t.duration)
            ELSE /\ ~bt.ret
                 /\ bt.active = <<>>
                 /\ ~bt.has_snapshot

\* C28: update on an active transition returns true and sets the progress to
\* the eased elapsed / duration while elapsed < duration; at elapsed >=
\* duration it returns false and leaves no transition and no snapshot; with
\* no transition it returns false and changes nothing.
C28_UpdateByElapsed == BtUpdated => UpdateByElapsed

\* The same with "elapsed < duration" read as the code decides it: the
\* quotient of the two times as f32 seconds is below 1.
UpdateByRatio ==
    IF bt.before.active = <<>>
    THEN /\ ~bt.ret
         /\ bt.active = <<>>
         /\ bt.has_snapshot = bt.before.has_snapshot
    ELSE LET t == bt.before.active[1]
             elapsed == bt.now - t.start_time
         IN IF ~RawProgressAtLeastOne(elapsed, t.duration)
            THEN /\ bt.ret
                 /\ Len(bt.active) = 1
                 /\ bt.active[1].progress = EasedProgress(t.easing, elapsed, t.duration)
            ELSE /\ ~bt.ret
                 /\ bt.active = <<>>
                 /\ ~bt.has_snapshot
C28_UpdateByRatio == BtUpdated => UpdateByRatio

\* An update cleared a transition before its duration had elapsed.
C28_ClearedEarly ==
    /\ BtUpdated
    /\ bt.before.active # <<>>
    /\ bt.now - bt.before.active[1].start_time < bt.before.active[1].duration
    /\ bt.active = <<>>

\* Every started transition is cleared in the end.
C28_EveryTransitionCleared == (bt.pc = "run" /\ bt.active # <<>>) ~> (bt.active = <<>>)

\* ---- CursorAnimator: blink, effects and settings (core/cursor_animation.rs) ----
\*
\* Times are nanoseconds and fx.now is what Instant::now() reads. The particle
\* list and the ring list are sequences of runs [birth, lifetime, n]: n
\* consecutive elements born together with one lifetime. The trail is the
\* sequence of the times of its points. Positions are in steps of 1 / Unit
\* pixel as above. last_target_x / last_target_y are written by set_target
\* before on_cursor_move reads them and read nowhere else, so they are the
\* target the call found and are not part of the state. f32 settings are
\* [kind, v]: v tenths for a number, and NaN and the infinities by kind.
\* fx.op is the last call, fx.arg its argument, fx.ret what an update
\* returned, and fx.was the numbers of particles, rings and trail points the
\* last call found.

Ms == 1000000
BlinkInterval == 530 * Ms
ParticleLifetime == 400 * Ms
TrailLifetime == 200 * Ms
SonicboomLifetime == 300 * Ms
MaxTrailLength == 40
ParticleCapacity == 100
RingCapacity == 10
DefaultParticleCount == 15
AllModes ==
    {"None", "Smooth", "Railgun", "Torpedo", "Pixiedust", "Sonicboom", "Ripple",
     "Wireframe"}

\* (particle_lifetime.as_millis() as f32 * rand_factor) as u64 for particle
\* i - 1 of a railgun burst, rand_factor = 0.5 + |sin(i * 7.13)| * 0.5 in f32.
RailgunLifetimeMs ==
    <<200, 349, 398, 313, 248, 377, 386, 269, 294, 394,
      363, 221, 334, 399, 330, 227, 366, 393, 289, 274,
      388, 375, 243, 317, 399, 346, 205, 353, 397, 308,
      253, 379, 384, 264, 298, 395, 360, 216, 338, 399,
      326, 232, 369, 391, 285, 279, 390, 372, 238, 321,
      399, 342, 210, 356, 396, 304, 258, 382, 382, 259,
      303, 396, 357, 211, 341, 399, 322, 237, 371, 390,
      280, 284, 391, 369, 233, 325, 399, 339, 215, 359,
      395, 299, 263, 384, 380, 254, 307, 397, 353, 206,
      345, 399, 318, 242, 374, 388, 275, 288, 393, 367>>

\* f32 values of the settings.
Num(v) == [kind |-> "num", v |-> v]
NaN == [kind |-> "nan", v |-> 0]
PosInf == [kind |-> "inf", v |-> 0]
NegInf == [kind |-> "-inf", v |-> 0]
SpeedScale == 10
\* x < y on f32: false when either is NaN.
LessF32(x, y) ==
    /\ x.kind # "nan" /\ y.kind # "nan"
    /\ \/ x.kind = "-inf" /\ y.kind # "-inf"
       \/ y.kind = "inf" /\ x.kind # "inf"
       \/ x.kind = "num" /\ y.kind = "num" /\ x.v < y.v
\* f32::max and f32::min: the other operand when one is NaN.
MaxF32(x, y) ==
    IF x.kind = "nan" THEN y ELSE IF y.kind = "nan" THEN x
    ELSE IF LessF32(x, y) THEN y ELSE x
MinF32(x, y) ==
    IF x.kind = "nan" THEN y ELSE IF y.kind = "nan" THEN x
    ELSE IF LessF32(y, x) THEN y ELSE x

\* The number of elements of a list of runs.
RECURSIVE Stored(_)
Stored(list) == IF list = <<>> THEN 0 ELSE Head(list).n + Stored(Tail(list))

\* Particle::is_alive / Ring::is_alive
IsAlive(p, now) == now - p.birth < p.lifetime
\* Particle::opacity / Ring::opacity is 0.0: (1.0 - age).powi(2) with age =
\* (age / lifetime).min(1.0) in f32 seconds is 0 exactly when the quotient is
\* at least 1.
OpacityIsZero(p, now) == RatioAtLeastOne(now - p.birth, p.lifetime)
\* retain(|p| p.is_alive(now))
Retain(list, now) == SelectSeq(list, LAMBDA p : IsAlive(p, now))

\* CursorAnimator::new()
FxNew ==
    [pc |-> "run", now |-> 0, mode |-> "Smooth",
     target_x |-> 0, target_y |-> 0,
     target_width |-> 8 * Unit, target_height |-> 16 * Unit,
     current_x |-> 0, current_y |-> 0,
     current_width |-> 8 * Unit, current_height |-> 16 * Unit,
     blink_on |-> TRUE, last_blink_toggle |-> 0,
     animation_speed |-> Num(15 * SpeedScale),
     particles |-> <<>>, rings |-> <<>>, trail |-> <<>>,
     particle_count |-> DefaultParticleCount, animating |-> FALSE,
     op |-> "new", ret |-> FALSE, arg |-> <<>>,
     was |-> [particles |-> 0, rings |-> 0, trail |-> 0]]

\* What a call finds in the lists.
Was(a) ==
    [particles |-> Stored(a.particles), rings |-> Stored(a.rings),
     trail |-> Len(a.trail)]

\* spawn_railgun_particles
SpawnRailgunParticles(a) ==
    [a EXCEPT !.particles = @ \o
        [i \in 1..a.particle_count |->
            [birth |-> a.now, lifetime |-> RailgunLifetimeMs[i] * Ms, n |-> 1]]]

\* spawn_pixiedust_particles
SpawnPixiedustParticles(a) ==
    [a EXCEPT !.particles = @ \o
        <<[birth |-> a.now, lifetime |-> ParticleLifetime, n |-> a.particle_count]>>]

\* add_trail_point
AddTrailPointUncappedMutant(a) ==
    [a EXCEPT !.trail = Append(@, a.now)]
AddTrailPoint(a) ==
    LET pushed == Append(a.trail, a.now)
    IN [a EXCEPT !.trail =
           IF Len(pushed) > MaxTrailLength
           THEN SubSeq(pushed, Len(pushed) - MaxTrailLength + 1, Len(pushed))
           ELSE pushed]

\* spawn_sonicboom
SpawnSonicboom(a) ==
    [a EXCEPT !.rings = @ \o
        <<[birth |-> a.now, lifetime |-> SonicboomLifetime, n |-> 1]>>]

\* spawn_ripple
SpawnRipple(a) ==
    [a EXCEPT !.rings = @ \o
        [i \in 1..3 |-> [birth |-> a.now, lifetime |-> (400 + (i - 1) * 50) * Ms,
                         n |-> 1]]]

\* on_cursor_move, dx and dy being target - last_target.
CursorMoveEffects(a, dx, dy) ==
    LET moving == [a EXCEPT !.animating = TRUE, !.blink_on = TRUE,
                            !.last_blink_toggle = a.now]
    IN IF dx * dx + dy * dy < Unit * Unit THEN moving
       ELSE CASE a.mode = "Railgun" -> SpawnRailgunParticles(moving)
              [] a.mode = "Torpedo" -> AddTrailPoint(moving)
              [] a.mode = "Pixiedust" -> SpawnPixiedustParticles(moving)
              [] a.mode = "Sonicboom" -> SpawnSonicboom(moving)
              [] a.mode = "Ripple" -> SpawnRipple(moving)
              [] OTHER -> moving

\* set_target(x, y, ..) with the width and height kept.
SetTargetEffects(a, x, y) ==
    LET moved == BeyondHalf(a.target_x - x) \/ BeyondHalf(a.target_y - y)
        set == [a EXCEPT !.target_x = x, !.target_y = y]
    IN IF moved THEN CursorMoveEffects(set, x - a.target_x, y - a.target_y) ELSE set

\* set_mode(mode)
SetModeKeepsTrailMutant(a, mode) ==
    [a EXCEPT !.mode = mode, !.particles = <<>>, !.rings = <<>>]
SetMode(a, mode) ==
    [a EXCEPT !.mode = mode, !.particles = <<>>, !.rings = <<>>, !.trail = <<>>]

\* set_animation_speed(speed)
SetAnimationSpeed(a, speed) ==
    [a EXCEPT !.animation_speed =
        MinF32(MaxF32(speed, Num(1 * SpeedScale)), Num(100 * SpeedScale))]

\* set_particle_count(count)
SetParticleCountUncappedMutant(a, count) ==
    [a EXCEPT !.particle_count = Max(count, 1)]
SetParticleCount(a, count) ==
    [a EXCEPT !.particle_count = Min(Max(count, 1), 100)]

\* update() / update_with_dt(dt) whose dt gives the factor f.
UpdateAt(a, f) ==
    LET blinked == IF a.now - a.last_blink_toggle >= BlinkInterval
                   THEN [a EXCEPT !.blink_on = ~@, !.last_blink_toggle = a.now]
                   ELSE a
        moved == MoveCursor(blinked, f)
        kept == [moved EXCEPT
                    !.particles = Retain(@, a.now),
                    !.rings = Retain(@, a.now),
                    !.trail = SelectSeq(@, LAMBDA t : a.now - t < TrailLifetime)]
        trailed == IF kept.mode = "Torpedo" /\ kept.animating
                   THEN AddTrailPoint(kept) ELSE kept
    IN [trailed EXCEPT !.ret = \/ trailed.animating \/ trailed.particles # <<>>
                               \/ trailed.rings # <<>> \/ trailed.trail # <<>>]

fxOthers == <<mwVars, gb, lay, ofs, wt, anim, bt, grid, more>>

FxStart ==
    /\ windows = <<>> /\ winit_to_emacs = <<>> /\ pending_creates = <<>>
    /\ pending_destroys = <<>> /\ ret = FALSE /\ mwFailed = {}
    /\ mwLatest = <<>> /\ mwCoalesced = FALSE
    /\ gb = GbIdle /\ lay = LayIdle /\ ofs = OfsIdle /\ wt = WtIdle
    /\ anim = AnimIdle /\ bt = BtIdle /\ grid = GridIdle /\ MoreIdle
    /\ fx = FxNew

\* The result of a call: the animator with the call and what it found noted.
Called(a, op, arg) ==
    [a EXCEPT !.op = op, !.arg = arg, !.was = Was(fx),
              !.ret = IF op \in {"update", "update_with_dt"} THEN @ ELSE FALSE]

\* Time passes, to one of the instants.
Passes(instants) ==
    /\ fx.pc = "run"
    /\ \E now \in instants :
           /\ now > fx.now
           /\ fx' = Called([fx EXCEPT !.now = now], "tick", <<>>)
    /\ UNCHANGED fxOthers

\* The lists and the trail hold at most cap elements each: the calls that
\* add to them are followed from these states only.
Within(cap) ==
    /\ Stored(fx.particles) <= cap.particles
    /\ Stored(fx.rings) <= cap.rings
    /\ Len(fx.trail) <= cap.trail

\* set_target(x, y, ..) for <<x, y>> in targets
SetTargetCall(targets, cap) ==
    /\ fx.pc = "run"
    /\ Within(cap)
    /\ \E t \in targets :
       \E set \in {SetTargetEffects(fx, t[1], t[2])} :
           fx' = Called(set, "set_target", t)
    /\ UNCHANGED fxOthers

SetModeCall(modes) ==
    /\ fx.pc = "run"
    /\ \E mode \in modes :
           fx' = Called(SetMode(fx, mode), "set_mode", <<mode>>)
    /\ UNCHANGED fxOthers

SetAnimationSpeedCall(speeds) ==
    /\ fx.pc = "run"
    /\ \E speed \in speeds :
           fx' = Called(SetAnimationSpeed(fx, speed), "set_animation_speed", <<speed>>)
    /\ UNCHANGED fxOthers

SetParticleCountCall(counts) ==
    /\ fx.pc = "run"
    /\ \E count \in counts :
           fx' = Called(SetParticleCount(fx, count), "set_particle_count", <<count>>)
    /\ UNCHANGED fxOthers

\* update(), the factor being that of the time since the last update.
UpdateCall(factors, cap) ==
    /\ fx.pc = "run"
    /\ Within(cap)
    /\ \E f \in factors :
           /\ ExactFor(fx, f)
           /\ \E updated \in {UpdateAt(fx, f)} :
                  fx' = Called(updated, "update", <<>>)
    /\ UNCHANGED fxOthers

\* update_with_dt(dt)
UpdateWithDtCall(factors, cap) ==
    /\ fx.pc = "run"
    /\ Within(cap)
    /\ \E f \in factors :
           /\ ExactFor(fx, f)
           /\ \E updated \in {UpdateAt(fx, f)} :
                  fx' = Called(updated, "update_with_dt", <<>>)
    /\ UNCHANGED fxOthers

\* The animator in use: moves of 0.25, 0.5, 0.75 and more than one pixel,
\* every mode, and the clock read at the start, 16 ns before a particle
\* lifetime has passed and after a blink interval.
FxInstants == {0, ParticleLifetime - 16, BlinkInterval}
FxTargets == {<<0, 0>>, <<2, 0>>, <<3, 0>>, <<0, 7>>}
FxFactors == {f \in Factors : f.den = 1}
FxCounts == {0, DefaultParticleCount}
MaxStored == [particles |-> 3, rings |-> 3, trail |-> 1]

FxTick == Passes(FxInstants)
FxSetTarget == SetTargetCall(FxTargets, MaxStored)
FxSetMode == SetModeCall(AllModes)
FxSetParticleCount == SetParticleCountCall(FxCounts)
FxUpdate == UpdateCall(FxFactors, MaxStored)
FxUpdateWithDt == UpdateWithDtCall(FxFactors, MaxStored)

FxNext ==
    \/ FxTick \/ FxSetTarget \/ FxSetMode \/ FxSetParticleCount
    \/ FxUpdate \/ FxUpdateWithDt

SpecFx == FxStart /\ [][FxNext]_vars

\* The step is a call of set_target.
SetTargetStep == fx.pc = "run" /\ fx'.op = "set_target"
\* |d| >= 0.5 pixel, for d in steps.
AtLeastHalf(d) == 2 * Abs(d) >= Unit
\* The step adds the effect of the mode, and nothing else: n particles, one
\* or three rings, or a trail point.
AddsEffect ==
    /\ Stored(fx'.particles) - Stored(fx.particles) =
          IF fx.mode \in {"Railgun", "Pixiedust"} THEN fx.particle_count ELSE 0
    /\ Stored(fx'.rings) - Stored(fx.rings) =
          CASE fx.mode = "Sonicboom" -> 1 [] fx.mode = "Ripple" -> 3 [] OTHER -> 0
    /\ fx'.trail = IF fx.mode = "Torpedo" THEN Append(fx.trail, fx.now) ELSE fx.trail
AddsNothing ==
    /\ fx'.particles = fx.particles /\ fx'.rings = fx.rings /\ fx'.trail = fx.trail

SetTargetByHalfPixel ==
    SetTargetStep =>
        IF \/ AtLeastHalf(fx'.target_x - fx.target_x)
           \/ AtLeastHalf(fx'.target_y - fx.target_y)
        THEN fx'.blink_on /\ fx'.animating /\ AddsEffect
        ELSE /\ AddsNothing
             /\ fx'.blink_on = fx.blink_on /\ fx'.animating = fx.animating

\* C21: a set_target that moves the target by at least 0.5 px in either axis
\* sets blink on and the moving flag and adds particle_count particles
\* (Railgun, Pixiedust), one ring (Sonicboom), three rings (Ripple) or one
\* trail point (Torpedo) and nothing in the other modes; one that moves it by
\* less in both axes adds nothing and leaves blink and the moving flag alone.
C21_SetTargetByHalfPixel == [][SetTargetByHalfPixel]_vars

\* What set_target does: blink and the moving flag are set by a move of more
\* than 0.5 px in an axis, and the effect is added when the move is also at
\* least one pixel long.
SetTargetAsDispatched ==
    SetTargetStep =>
        LET dx == fx'.target_x - fx.target_x
            dy == fx'.target_y - fx.target_y
        IN IF BeyondHalf(dx) \/ BeyondHalf(dy)
           THEN /\ fx'.blink_on /\ fx'.animating
                /\ IF dx * dx + dy * dy >= Unit * Unit THEN AddsEffect ELSE AddsNothing
           ELSE /\ AddsNothing
                /\ fx'.blink_on = fx.blink_on /\ fx'.animating = fx.animating
C21_SetTargetAsDispatched == [][SetTargetAsDispatched]_vars

\* A set_target has moved the target by 0.75 px and added no ring in Ripple
\* mode.
C21_MovedWithoutEffect ==
    /\ fx.pc = "run" /\ fx.op = "set_target" /\ fx.mode = "Ripple"
    /\ fx.target_x = 3 /\ fx.target_y = 0
    /\ fx.animating /\ fx.rings = <<>> /\ fx.current_x = 0 /\ fx.current_y = 0

\* The elements of the particle list and of the ring list.
Elements == {fx.particles[i] : i \in DOMAIN fx.particles}
                \cup {fx.rings[i] : i \in DOMAIN fx.rings}

\* C22: the opacity of a particle or ring is 0 at every time >= birth +
\* lifetime and positive before it, and after an update at time now no
\* element of the two lists has now - birth >= lifetime.
C22_VisibleExactlyWithinLifetime ==
    fx.pc = "run" =>
        /\ \A p \in Elements : OpacityIsZero(p, fx.now) <=> fx.now - p.birth >= p.lifetime
        /\ fx.op \in {"update", "update_with_dt"} =>
               \A p \in Elements : fx.now - p.birth < p.lifetime

\* The opacity is 0 from birth + lifetime on, and an update keeps no element
\* that old.
C22_NeverVisiblePastLifetime ==
    fx.pc = "run" =>
        /\ \A p \in Elements : fx.now - p.birth >= p.lifetime => OpacityIsZero(p, fx.now)
        /\ fx.op \in {"update", "update_with_dt"} =>
               \A p \in Elements : fx.now - p.birth < p.lifetime

\* An update has kept a particle whose opacity is 0.
C22_KeptInvisible ==
    /\ fx.pc = "run" /\ fx.op \in {"update", "update_with_dt"}
    /\ \E p \in Elements : OpacityIsZero(p, fx.now) /\ fx.now - p.birth < p.lifetime

SetModeStep == fx.pc = "run" /\ fx'.op = "set_mode"
SetModeClears ==
    SetModeStep =>
        /\ fx'.particles = <<>> /\ fx'.rings = <<>> /\ fx'.trail = <<>>
        /\ fx'.mode = fx'.arg[1]
        /\ fx'.target_x = fx.target_x /\ fx'.target_y = fx.target_y
        /\ fx'.target_width = fx.target_width /\ fx'.target_height = fx.target_height
        /\ fx'.current_x = fx.current_x /\ fx'.current_y = fx.current_y
        /\ fx'.current_width = fx.current_width
        /\ fx'.current_height = fx.current_height

\* C25: set_mode(m) leaves the particle list, the ring list and the trail
\* empty and the mode m, and changes neither the target nor the current
\* position and size of the cursor.
C25_SetModeClears == [][SetModeClears]_vars

\* set_mode found a trail and a cursor on its way, and changed the mode.
C25_Witness ==
    /\ fx.pc = "run" /\ fx.op = "set_mode"
    /\ fx.was.trail > 0 /\ fx.trail = <<>>
    /\ fx.mode = "Ripple"
    /\ fx.current_y # fx.target_y /\ fx.animating

\* The animator under a burst of moves: the target jumps between two places a
\* pixel and more apart, in the modes that store effects, with updates at the
\* same reading of the clock and a trail lifetime later. The calls that add
\* are followed while the lists are within the capacities new() allocates.
BurstInstants == {0, TrailLifetime}
BurstTargets == {<<0, 0>>, <<0, 7>>}
BurstModes == {"Pixiedust", "Ripple", "Torpedo"}
BurstCap ==
    [particles |-> ParticleCapacity, rings |-> RingCapacity, trail |-> MaxTrailLength]

BurstTick == Passes(BurstInstants)
BurstSetTarget == SetTargetCall(BurstTargets, BurstCap)
BurstSetMode == SetModeCall(BurstModes)
BurstUpdate == UpdateCall(FxFactors, BurstCap)
BurstUpdateWithDt == UpdateWithDtCall(FxFactors, BurstCap)

BurstNext ==
    \/ BurstTick \/ BurstSetTarget \/ BurstSetMode \/ BurstUpdate
    \/ BurstUpdateWithDt

SpecBurst == FxStart /\ [][BurstNext]_vars

\* C23: the particle list and the ring list are bounded by a fixed bound,
\* however many set_target calls come between two updates: they stay within
\* the capacities they are created with.
C23_ListsWithinCapacity ==
    fx.pc = "run" =>
        /\ Stored(fx.particles) <= ParticleCapacity
        /\ Stored(fx.rings) <= RingCapacity

\* Every set_target that moves the target a pixel or more makes the list of
\* the mode longer, whatever it holds.
MoveGrowsList ==
    SetTargetStep /\ (fx'.target_y - fx.target_y) * (fx'.target_y - fx.target_y) >= Unit * Unit =>
        /\ fx.mode = "Pixiedust" =>
               Stored(fx'.particles) = Stored(fx.particles) + fx.particle_count
        /\ fx.mode = "Ripple" => Stored(fx'.rings) = Stored(fx.rings) + 3
C23_EveryMoveGrowsList == [][MoveGrowsList]_vars

\* The trail after the step is what is left of the trail when some of its
\* oldest points are dropped, with or without a new point at the end.
DropsOldest ==
    fx.pc = "run" =>
        \E k \in 0..Len(fx.trail) :
            LET younger == SubSeq(fx.trail, k + 1, Len(fx.trail))
            IN fx'.trail \in {younger, Append(younger, fx'.now)}

\* C24: after any sequence of set_target, update, update_with_dt and set_mode
\* calls the trail holds at most max_trail_length (40) points, and the points
\* dropped are the oldest.
C24_TrailCapped ==
    /\ [](fx.pc = "run" => Len(fx.trail) <= MaxTrailLength)
    /\ [][DropsOldest]_vars

\* An update found a full trail whose points were all young enough to stay,
\* and added one.
C24_Witness ==
    /\ fx.pc = "run" /\ fx.op = "update" /\ fx.mode = "Torpedo" /\ fx.animating
    /\ fx.now = 0
    /\ fx.was.trail = MaxTrailLength /\ Len(fx.trail) = MaxTrailLength

\* The settings: set_animation_speed and set_particle_count with arguments
\* below, at, inside and above the range, NaN and the infinities.
SpeedArgs ==
    {NaN, NegInf, PosInf}
        \cup {Num(v) : v \in {0 - SpeedScale, 0, SpeedScale - 1, SpeedScale,
                              SpeedScale + 1, 15 * SpeedScale,
                              100 * SpeedScale - 1, 100 * SpeedScale,
                              100 * SpeedScale + 1}}
CountArgs == {0, 1, 2, 15, 50, 99, 100, 101, 1000}

SettingsSetAnimationSpeed == SetAnimationSpeedCall(SpeedArgs)
SettingsSetParticleCount == SetParticleCountCall(CountArgs)
SettingsNext == SettingsSetAnimationSpeed \/ SettingsSetParticleCount
SpecSettings == FxStart /\ [][SettingsNext]_vars

\* x clamped to [lo, hi]
Clamped(x, lo, hi) == IF x < lo THEN lo ELSE IF x > hi THEN hi ELSE x

\* C26: after any sequence of set_animation_speed and set_particle_count
\* calls animation_speed is in [1, 100] and particle_count is in [1, 100]; an
\* argument inside the range is stored as it is and one outside is clamped to
\* the nearer bound.
C26_SettingsClamped ==
    fx.pc = "run" =>
        /\ fx.animation_speed.kind = "num"
        /\ fx.animation_speed.v >= 1 * SpeedScale
        /\ fx.animation_speed.v <= 100 * SpeedScale
        /\ fx.particle_count \in 1..100
        /\ fx.op = "set_animation_speed" =>
               CASE fx.arg[1].kind = "num" ->
                        fx.animation_speed =
                            Num(Clamped(fx.arg[1].v, 1 * SpeedScale, 100 * SpeedScale))
                 [] fx.arg[1].kind = "-inf" -> fx.animation_speed = Num(1 * SpeedScale)
                 [] fx.arg[1].kind = "inf" -> fx.animation_speed = Num(100 * SpeedScale)
                 [] OTHER -> TRUE
        /\ fx.op = "set_particle_count" =>
               fx.particle_count = Clamped(fx.arg[1], 1, 100)

\* Both settings were given values above the range, the speed last.
C26_Witness ==
    /\ fx.pc = "run" /\ fx.op = "set_animation_speed"
    /\ fx.arg[1] = Num(100 * SpeedScale + 1) /\ fx.animation_speed = Num(100 * SpeedScale)
    /\ fx.particle_count = 100

\* ---- CharacterGrid with columns: resize and scroll_region (core/grid.rs) ----
\*
\* A cell's text is Blank (" ", the default cell) or 1. isize and usize are
\* IsizeBits wide. cg.lines[i] is lines[i - 1] and its cells[x] is
\* cells[x - 1]. cg.op is the last call and cg.arg the arguments of a resize
\* or scroll_region; cg.copies is
\* the number of cells the last scroll_region copied and cg.visits the number
\* of rows its loop went through.

MaxWidth == 2
Blank == 0
Texts == {Blank, 1}
\* `as usize` of an isize and `as isize` of a usize of the same width.
AsUsize(i) == i % PowerOfTwo(IsizeBits)
AsIsize(u) == IF u > IsizeMax THEN u - PowerOfTwo(IsizeBits) ELSE u

\* What the other subsystems hold while one of the four below runs.
OldIdle ==
    /\ windows = <<>> /\ winit_to_emacs = <<>> /\ pending_creates = <<>>
    /\ pending_destroys = <<>> /\ ret = FALSE /\ mwFailed = {}
    /\ mwLatest = <<>> /\ mwCoalesced = FALSE
    /\ gb = GbIdle /\ lay = LayIdle /\ ofs = OfsIdle /\ wt = WtIdle
    /\ anim = AnimIdle /\ fx = FxIdle /\ bt = BtIdle /\ grid = GridIdle
old == <<mwVars, gb, lay, ofs, wt, anim, fx, bt, grid>>

\* GridLine::new(width)
GridLineNew(width) == [cells |-> [x \in 1..width |-> Blank], dirty |-> TRUE]
\* GridLine::resize(width)
GridLineResize(line, width) ==
    [cells |-> [x \in 1..width |-> IF x <= Len(line.cells) THEN line.cells[x] ELSE Blank],
     dirty |-> TRUE]

\* CharacterGrid::new(width, height)
CgNew(width, height) ==
    [pc |-> "run", width |-> width, height |-> height,
     lines |-> [i \in 1..height |-> GridLineNew(width)],
     scroll_offset |-> 0, op |-> "new", arg |-> <<width, height>>,
     copies |-> 0, visits |-> 0]

\* get_cell(x, y): <<>> for None, <<text>> for Some.
GetCellAt(g, x, y) ==
    IF x >= g.width \/ y >= g.height THEN <<>>
    ELSE <<g.lines[ActualRow(g, y) + 1].cells[x + 1]>>

\* mark_row_dirty(y)
MarkRowDirty(g, y) ==
    IF y >= g.height THEN g
    ELSE [g EXCEPT !.lines[ActualRow(g, y) + 1].dirty = TRUE]

\* set_cell(x, y, text, ..)
SetCellAt(g, x, y, text) ==
    MarkRowDirty(IF x >= g.width \/ y >= g.height THEN g
                 ELSE [g EXCEPT !.lines[ActualRow(g, y) + 1].cells[x + 1] = text],
                 y)

\* resize(width, height)
Resize(g, width, height) ==
    [g EXCEPT !.scroll_offset = 0,
              !.lines = [i \in 1..height |->
                            IF i <= Len(g.lines) THEN GridLineResize(g.lines[i], width)
                            ELSE GridLineNew(width)],
              !.width = width, !.height = height]

\* scroll(rows), scroll_offset + rows being an isize.
ScrollBy(g, rows) ==
    [g EXCEPT !.scroll_offset = RemEuclid(g.scroll_offset + rows, g.height),
              !.lines = [i \in 1..Len(g.lines) |-> [@[i] EXCEPT !.dirty = TRUE]]]

\* The rows of the range a..b - 1, and the same from the last to the first.
RowsUp(a, b) == [i \in 1..(b - a) |-> a + i - 1]
RowsDown(a, b) == [i \in 1..(b - a) |-> b - i]

\* The inner loop of scroll_region for row y: the cells of columns
\* left..right - 1 of row src_y are copied to row y where both exist.
CopyRow(g, y, src_y, left, right) ==
    LET copied == {x \in left..(right - 1) :
                      GetCellAt(g, x, src_y) # <<>> /\ GetCellAt(g, x, y) # <<>>}
    IN [g EXCEPT
          !.lines = IF copied = {} THEN @
                    ELSE [@ EXCEPT ![ActualRow(g, y) + 1].cells =
                             [x \in 1..g.width |->
                                 IF x - 1 \in copied THEN GetCellAt(g, x - 1, src_y)[1]
                                 ELSE @[x]]],
          !.copies = @ + Cardinality(copied),
          !.visits = @ + 1]

\* The outer loop of scroll_region over the rows ys. src_y is (y as isize -
\* rows) as usize; where the difference is no isize a build with overflow
\* checks (checked) panics there and one without wraps it.
RECURSIVE CopyRows(_, _, _, _, _, _)
CopyRows(g, ys, rows, left, right, checked) ==
    IF ys = <<>> THEN g
    ELSE LET y == Head(ys)
             diff == AsIsize(y) - rows
         IN IF diff \notin Isize /\ checked THEN [g EXCEPT !.pc = "panicked"]
            ELSE CopyRows(CopyRow(g, y, AsUsize(diff), left, right),
                          Tail(ys), rows, left, right, checked)

RECURSIVE MarkRowsDirty(_, _)
MarkRowsDirty(g, ys) ==
    IF ys = <<>> THEN g ELSE MarkRowsDirty(MarkRowDirty(g, Head(ys)), Tail(ys))

\* scroll_region(top, bottom, left, right, rows, 0)
ScrollRegion(g, top, bottom, left, right, rows, checked) ==
    IF left = 0 /\ right = g.width /\ top = 0 /\ bottom = g.height
    THEN ScrollBy(g, rows)
    ELSE LET ys == IF rows > 0 THEN RowsDown(AsUsize(top + rows), bottom)
                   ELSE IF rows < 0 THEN RowsUp(top, AsUsize(bottom + rows))
                   ELSE <<>>
             copied == CopyRows(g, ys, rows, left, right, checked)
         IN IF copied.pc = "panicked" THEN copied
            ELSE MarkRowsDirty(copied, RowsUp(top, bottom))

CgInit ==
    /\ OldIdle /\ wk = WkIdle /\ md = MdIdle /\ bl = BlIdle
    /\ \E width \in 1..MaxWidth, height \in 1..MaxHeight : cg = CgNew(width, height)

cgOthers == <<old, wk, md, bl>>

\* The call made and its arguments, the counts of scroll_region starting
\* from 0.
CgCalled(g, op, arg) == [g EXCEPT !.op = op, !.arg = arg]
CgCalling == [cg EXCEPT !.copies = 0, !.visits = 0]

CgSetCell ==
    /\ cg.pc = "run"
    /\ \E x \in 0..(cg.width - 1), y \in 0..(cg.height - 1), text \in Texts :
           cg' = CgCalled(SetCellAt(CgCalling, x, y, text), "set_cell", <<>>)
    /\ UNCHANGED cgOthers

CgMarkRowClean ==
    /\ cg.pc = "run"
    /\ \E y \in 0..(cg.height - 1) :
           cg' = CgCalled([CgCalling EXCEPT !.lines[ActualRow(cg, y) + 1].dirty = FALSE],
                          "mark_row_clean", <<>>)
    /\ UNCHANGED cgOthers

CgScroll ==
    /\ cg.pc = "run"
    /\ \E rows \in {-1, 1} :
           cg' = CgCalled(ScrollBy(CgCalling, rows), "scroll", <<>>)
    /\ UNCHANGED cgOthers

CgResize ==
    /\ cg.pc = "run"
    /\ \E width \in 1..MaxWidth, height \in 1..MaxHeight :
           cg' = CgCalled(Resize(CgCalling, width, height), "resize", <<width, height>>)
    /\ UNCHANGED cgOthers

\* scroll_region on a rectangle of a grid whose rows have all been rendered,
\* by up to a row more than the grid is high, in a build with and without
\* overflow checks.
CgScrollRegion ==
    /\ cg.pc = "run"
    /\ \A i \in 1..cg.height : ~cg.lines[i].dirty
    /\ \E top \in 0..(cg.height - 1), left \in 0..(cg.width - 1), checked \in BOOLEAN :
       \E bottom \in (top + 1)..cg.height, right \in (left + 1)..cg.width :
       \E rows \in (0 - cg.height - 1)..(cg.height + 1) :
       \E scrolled \in {ScrollRegion(CgCalling, top, bottom, left, right, rows, checked)} :
           cg' = CgCalled(scrolled, "scroll_region", <<top, bottom, left, right, rows>>)
    /\ UNCHANGED cgOthers

CgNext == CgSetCell \/ CgMarkRowClean \/ CgScroll \/ CgResize \/ CgScrollRegion

SpecRegion == CgInit /\ [][CgNext]_vars

\* The step is a resize that makes the grid no smaller.
GrowingResize ==
    /\ cg.pc = "run" /\ cg'.op = "resize"
    /\ cg'.width >= cg.width /\ cg'.height >= cg.height
\* The cells that existed show what they showed and the new ones are blank.
KeepsCells ==
    \A x \in 0..(cg'.width - 1), y \in 0..(cg'.height - 1) :
        GetCellAt(cg', x, y) =
            IF x < cg.width /\ y < cg.height THEN GetCellAt(cg, x, y) ELSE <<Blank>>

\* C31: in every reachable grid state, also after scroll calls, resize(w', h')
\* with w' >= width and h' >= height leaves get_cell(x, y) as it was for all
\* x < width and y < height, and the new cells are blank.
C31_ResizeKeepsCells == [][GrowingResize => KeepsCells]_vars

\* The same for the grids whose scroll offset is 0.
C31_ResizeKeepsCellsUnscrolled ==
    [][GrowingResize /\ cg.scroll_offset = 0 => KeepsCells]_vars

\* A resize to the same size has moved the one cell with text from the top
\* row of a scrolled grid to the bottom row.
C31_ResizeMovedCell ==
    /\ cg.pc = "run" /\ cg.op = "resize" /\ cg.width = 1 /\ cg.height = 2
    /\ GetCellAt(cg, 0, 0) = <<Blank>> /\ GetCellAt(cg, 0, 1) = <<1>>

\* The step is a scroll_region on part of the grid, and its arguments.
RegionStep ==
    /\ cg.pc = "run" /\ cg'.op = "scroll_region"
    /\ ~(cg'.arg[1] = 0 /\ cg'.arg[2] = cg.height /\ cg'.arg[3] = 0
            /\ cg'.arg[4] = cg.width)
\* What the claim says of such a step.
RegionScrolled ==
    LET top == cg'.arg[1]
        bottom == cg'.arg[2]
        left == cg'.arg[3]
        right == cg'.arg[4]
        rows == cg'.arg[5]
        inside(x, y) == x \in left..(right - 1) /\ y \in top..(bottom - 1)
    IN /\ cg'.pc = "run"
       /\ cg'.copies <= (bottom - top) * (right - left)
       /\ Abs(rows) > bottom - top =>
              \A x \in 0..(cg.width - 1), y \in 0..(cg.height - 1) :
                  GetCellAt(cg', x, y) = GetCellAt(cg, x, y)
       /\ \A x \in 0..(cg.width - 1), y \in 0..(cg.height - 1) :
              /\ inside(x, y) /\ inside(x, y + rows) =>
                     GetCellAt(cg', x, y + rows) = GetCellAt(cg, x, y)
              /\ ~inside(x, y) => GetCellAt(cg', x, y) = GetCellAt(cg, x, y)
       /\ \A y \in top..(bottom - 1) : cg'.lines[ActualRow(cg', y) + 1].dirty

\* C38: scroll_region(top, bottom, left, right, rows, 0) on a partial region
\* returns after at most (bottom - top) * (right - left) cell copies for every
\* rows; with |rows| > bottom - top no cell content changes; it moves the
\* content of row y to row y + rows inside the rectangle only, modifies no
\* cell outside it, and marks rows top..bottom-1 dirty.
C38_RegionScrollStaysInside == [][RegionStep => RegionScrolled]_vars

\* The same for the calls whose bottom + rows is not negative.
C38_RegionScrollStaysInsideFromTop ==
    [][RegionStep /\ cg'.arg[2] + cg'.arg[5] >= 0 => RegionScrolled]_vars

\* scroll_region(0, 1, .., -2, 0) went through more rows than the region has.
C38_RegionLoopRanOn ==
    /\ cg.pc = "run" /\ cg.op = "scroll_region" /\ cg.height = 3
    /\ cg.arg[1] = 0 /\ cg.arg[2] = 1 /\ cg.arg[5] = -2
    /\ cg.visits > 1 /\ cg.copies > 0


(***************************************************************************)
(* Claims about the order of creation and destruction requests and about   *)
(* the two maps of the window manager.                                     *)
(***************************************************************************)
\* The manager's maps as the loops of process_creates and process_destroys
\* take them.
MapsNow == [windows |-> windows, winit_to_emacs |-> winit_to_emacs, failed |-> {}]

\* process_destroys run on the maps `st` with the queue `reqs`.
Destroyed(st, reqs) ==
    LET d == DestroyLoop([windows |-> st.windows,
                          winit_to_emacs |-> st.winit_to_emacs], reqs, 1)
    IN [windows |-> d.windows, winit_to_emacs |-> d.winit_to_emacs, failed |-> {}]

\* The maps after process_creates and then process_destroys, the OS creating
\* every window asked for.
CreatesThenDestroys ==
    {Destroyed(st, pending_destroys) :
        st \in CreateLoop(MapsNow, pending_creates, OsSuccesses(WinitIds, {MaxSize}), 1)}

\* The maps after process_destroys and then process_creates.
DestroysThenCreates ==
    CreateLoop(Destroyed(MapsNow, pending_destroys), pending_creates,
               OsSuccesses(WinitIds, {MaxSize}), 1)

\* request_destroy(f) and request_create(f) are both queued, and nothing else,
\* for a frame f that has a window. The two queues are separate vectors: the
\* state is the same whichever of the two requests came first.
BothRequested(f) ==
    /\ f \in DOMAIN windows
    /\ pending_destroys = <<f>>
    /\ pending_creates = <<PendingWindow(f)>>

\* C37: when request_destroy(f) and then request_create(f) were issued for a
\* frame f that has a window, a window for f exists once process_creates and
\* process_destroys have each run once, in either order.
C37_RecreateLeavesWindow ==
    \A f \in FrameIds :
        BothRequested(f) =>
            \A st \in CreatesThenDestroys \cup DestroysThenCreates :
                f \in DOMAIN st.windows

\* What holds instead: the outcome is decided by the order of the two runs and
\* not by the order of the requests. Destroys before creates leave a window,
\* creates before destroys leave none.
C37_OutcomeFollowsRunOrder ==
    \A f \in FrameIds :
        BothRequested(f) =>
            /\ \A st \in DestroysThenCreates : f \in DOMAIN st.windows
            /\ \A st \in CreatesThenDestroys : f \notin DOMAIN st.windows

\* Both requests are queued for a frame that has a window.
C37_BothQueued == \E f \in FrameIds : BothRequested(f)

\* C40: the two maps agree. Every OS-window id of the reverse map leads to a
\* frame id whose window state owns that OS window, every window state's
\* OS-window id is in the reverse map with its frame id, and every window
\* state stores the frame id it is keyed under.
C40_MapsAgree ==
    /\ \A id \in DOMAIN winit_to_emacs :
            /\ winit_to_emacs[id] \in DOMAIN windows
            /\ windows[winit_to_emacs[id]].winit = id
    /\ \A f \in DOMAIN windows :
            /\ windows[f].winit \in DOMAIN winit_to_emacs
            /\ winit_to_emacs[windows[f].winit] = f
            /\ windows[f].emacs_frame_id = f

\* Every frame has a window, under an OS id that is not its frame id, and the
\* reverse map holds as many entries as there are windows.
C40_Witness ==
    /\ DOMAIN windows = FrameIds
    /\ \A f \in DOMAIN windows : windows[f].winit # f
    /\ Cardinality(DOMAIN winit_to_emacs) = MaxFrameId


(***************************************************************************)
(* neovm-worker: WorkerRuntime. Callers run spawn, cancel and close on     *)
(* their own threads; the worker threads of start_dummy_workers run the    *)
(* loop. Every step is one critical section of a mutex or of the RwLock,   *)
(* or one atomic load or store.                                            *)
(***************************************************************************)
MaxTasks == 2
QueueCapacity == 1
NumCallers == 2
MaxWorkers == 2
DefaultThreads == 1
FirstTask == 1

Handles == FirstTask..MaxTasks
Callers == 1..NumCallers
Workers == 1..MaxWorkers
Affinities == {"MainOnly", "Any"}
NoHandle == 0

\* TaskEntry::new: status Queued, the cancelled flag false.
TaskEntryNew == [status |-> "Queued", cancelled |-> FALSE]

\* A caller thread outside every call; a worker thread not started. Inside a
\* call of spawn, `late` tells that it was called after close had set `closed`.
CallerIdle == [pc |-> "idle", handle |-> NoHandle, late |-> FALSE]
WorkerOff == [pc |-> "off", handle |-> NoHandle]

\* WorkerRuntime::new with config.threads = threads, the worker threads not
\* yet spawned. `last` is the step taken last: the function, the thread
\* and, when the step returned from the function, the returned value.
\* `returned` holds the handles spawn has returned in Ok, `cancel_returned` the
\* handles for which a cancel that found the status Queued has returned.
NoReturn == "-"
WkNew(threads) ==
    [pc |-> "run", threads |-> threads, queue |-> <<>>, closed |-> FALSE, next_task |-> FirstTask,
     tasks |-> <<>>, returned |-> {}, cancel_returned |-> {},
     callers |-> [c \in Callers |-> CallerIdle],
     workers |-> [k \in 1..threads |-> WorkerOff],
     last |-> [op |-> "new", who |-> 0, ret |-> NoReturn]]

Did(w, op, who, r) == [w EXCEPT !.last = [op |-> op, who |-> who, ret |-> r]]
Returned(w, c, op, r) == Did([w EXCEPT !.callers[c] = CallerIdle], op, c, r)
At(w, c, pc) == [w EXCEPT !.callers[c].pc = pc]
WorkerAt(w, k, pc) == [w EXCEPT !.workers[k].pc = pc]

\* WorkerRuntime::task_status: None is <<>>.
TaskStatus(w, handle) ==
    IF handle \in DOMAIN w.tasks THEN <<w.tasks[handle].status>> ELSE <<>>

\* Condvar::notify_one: the worker arrays it can leave, one waiting thread
\* woken if there is one. Condvar::notify_all: every waiting thread woken.
Waiting(workers) == {k \in DOMAIN workers : workers[k].pc = "waiting"}
NotifyOne(workers) ==
    IF Waiting(workers) = {} THEN {workers}
    ELSE {[workers EXCEPT ![k].pc = "lock"] : k \in Waiting(workers)}
NotifyAll(workers) ==
    [k \in DOMAIN workers |->
        IF workers[k].pc = "waiting" THEN [workers[k] EXCEPT !.pc = "lock"]
        ELSE workers[k]]

\* spawn up to the queue mutex: the affinity check and next_task.fetch_add.
Spawn(w, c, affinity) ==
    IF affinity = "MainOnly"
    THEN Returned(w, c, "spawn", "MainAffinityUnsupported")
    ELSE Did([w EXCEPT !.next_task = @ + 1,
                       !.callers[c] = [pc |-> "spawn_lock", handle |-> w.next_task,
                                       late |-> w.closed]],
             "spawn", c, NoReturn)

\* spawn under the queue mutex.
SpawnLockedPushesFirstMutant(w, c) ==
    IF w.closed THEN Returned(w, c, "spawn", "Closed")
    ELSE IF Len(w.queue) > QueueCapacity
    THEN Returned(w, c, "spawn", "QueueFull")
    ELSE Did(At([w EXCEPT !.queue = Append(@, w.callers[c].handle)], c, "spawn_insert"),
             "spawn", c, NoReturn)

SpawnLocked(w, c) ==
    IF w.closed THEN Returned(w, c, "spawn", "Closed")
    ELSE IF Len(w.queue) >= QueueCapacity
    THEN Returned(w, c, "spawn", "QueueFull")
    ELSE Did(At([w EXCEPT !.queue = Append(@, w.callers[c].handle)], c, "spawn_insert"),
             "spawn", c, NoReturn)

\* spawn under the write lock of the task map.
SpawnInsert(w, c) ==
    Did(At([w EXCEPT !.tasks = MapInsert(@, w.callers[c].handle, TaskEntryNew)],
           c, "spawn_notify"),
        "spawn", c, NoReturn)

\* ready.notify_one() and Ok(handle), the workers left as `workers`.
SpawnNotify(w, c, workers) ==
    Returned([w EXCEPT !.workers = workers,
                       !.returned = @ \cup {w.callers[c].handle}],
             c, "spawn", "Ok")

\* cancel under the read lock of the task map.
Cancel(w, c, handle) ==
    IF handle \notin DOMAIN w.tasks
    THEN Returned(w, c, "cancel", "false")
    ELSE Did([w EXCEPT !.callers[c] =
                           [pc |-> "cancel_flag", handle |-> handle, late |-> FALSE]],
             "cancel", c, NoReturn)

\* task.context.cancel()
CancelFlag(w, c) ==
    Did(At([w EXCEPT !.tasks[w.callers[c].handle].cancelled = TRUE], c, "cancel_status"),
        "cancel", c, NoReturn)

\* task.status() == TaskStatus::Queued
CancelStatus(w, c) ==
    IF w.tasks[w.callers[c].handle].status = "Queued"
    THEN Did(At(w, c, "cancel_set"), "cancel", c, NoReturn)
    ELSE Returned(w, c, "cancel", "true")

\* task.set_status(TaskStatus::Cancelled); true
CancelSet(w, c) ==
    Returned([w EXCEPT !.tasks[w.callers[c].handle].status = "Cancelled",
                       !.cancel_returned = @ \cup {w.callers[c].handle}],
             c, "cancel", "true")

\* close under the queue mutex.
Close(w, c) ==
    Did(At([w EXCEPT !.closed = TRUE], c, "close_notify"), "close", c, NoReturn)

\* ready.notify_all()
CloseForgetsNotifyMutant(w, c) == Returned(w, c, "close", "()")

CloseNotify(w, c) ==
    Returned([w EXCEPT !.workers = NotifyAll(@)], c, "close", "()")

\* The worker loop under the queue mutex: the while loop around the wait, the
\* return and pop_front.
WorkerLocked(w, k) ==
    IF w.queue = <<>> /\ ~w.closed
    THEN WorkerAt(w, k, "waiting")
    ELSE IF w.closed /\ w.queue = <<>>
    THEN WorkerAt(w, k, "exited")
    ELSE [w EXCEPT !.queue = Tail(@),
                   !.workers[k] = [pc |-> "lookup", handle |-> Head(w.queue)]]

\* tasks.get(&handle.0).cloned(); None: continue.
WorkerLookup(w, k) ==
    IF w.workers[k].handle \in DOMAIN w.tasks
    THEN WorkerAt(w, k, "check_flag")
    ELSE [w EXCEPT !.workers[k] = [pc |-> "lock", handle |-> NoHandle]]

\* task.context.is_cancelled() || ..
WorkerCheckFlag(w, k) ==
    IF w.tasks[w.workers[k].handle].cancelled
    THEN WorkerAt(w, k, "set_cancelled")
    ELSE WorkerAt(w, k, "check_status")

\* .. || task.status() == TaskStatus::Cancelled
WorkerCheckStatus(w, k) ==
    IF w.tasks[w.workers[k].handle].status = "Cancelled"
    THEN WorkerAt(w, k, "set_cancelled")
    ELSE WorkerAt(w, k, "set_running")

\* task.set_status(status); the loop goes on with the next handle.
WorkerSetStatus(w, k, status) ==
    [w EXCEPT !.tasks[w.workers[k].handle].status = status,
              !.workers[k] = [pc |-> "lock", handle |-> NoHandle]]

\* task.set_status(TaskStatus::Running)
WorkerSetRunning(w, k) ==
    WorkerAt([w EXCEPT !.tasks[w.workers[k].handle].status = "Running"], k, "recheck")

\* if task.context.is_cancelled() after the placeholder execution
WorkerRecheck(w, k) ==
    IF w.tasks[w.workers[k].handle].cancelled
    THEN WorkerAt(w, k, "set_cancelled")
    ELSE WorkerAt(w, k, "set_completed")

\* One step of worker thread k, which is not blocked in the wait.
WorkerStep(w, k) ==
    CASE w.workers[k].pc = "lock" -> WorkerLocked(w, k)
      [] w.workers[k].pc = "lookup" -> WorkerLookup(w, k)
      [] w.workers[k].pc = "check_flag" -> WorkerCheckFlag(w, k)
      [] w.workers[k].pc = "check_status" -> WorkerCheckStatus(w, k)
      [] w.workers[k].pc = "set_cancelled" -> WorkerSetStatus(w, k, "Cancelled")
      [] w.workers[k].pc = "set_running" -> WorkerSetRunning(w, k)
      [] w.workers[k].pc = "recheck" -> WorkerRecheck(w, k)
      [] w.workers[k].pc = "set_completed" -> WorkerSetStatus(w, k, "Completed")

WorkerSteps == {"lock", "lookup", "check_flag", "check_status", "set_cancelled",
                "set_running", "recheck", "set_completed"}

\* The other subsystems are not touched by the runtime.
WkAlone == OldIdle /\ cg = CgIdle /\ md = MdIdle /\ bl = BlIdle

\* WorkerConfig::default(), but for the capacity of the queue.
WkInit == WkAlone /\ wk = WkNew(DefaultThreads)

\* A runtime of MaxWorkers worker threads.
WkInitThreads == WkAlone /\ wk = WkNew(MaxWorkers)

wkOthers == <<old, cg, md, bl>>

\* start_dummy_workers: the threads are spawned, each at the top of its loop.
WkStartDummyWorkers ==
    /\ wk.pc = "run"
    /\ \A k \in DOMAIN wk.workers : wk.workers[k].pc = "off"
    /\ wk' = Did([wk EXCEPT !.workers = [k \in 1..wk.threads |->
                                            [pc |-> "lock", handle |-> NoHandle]]],
                 "start_dummy_workers", 0, NoReturn)
    /\ UNCHANGED wkOthers

WkSpawn(c) ==
    /\ wk.pc = "run" /\ wk.callers[c].pc = "idle"
    /\ \E affinity \in Affinities :
        /\ affinity # "MainOnly" => wk.next_task <= MaxTasks
        /\ wk' = Spawn(wk, c, affinity)
    /\ UNCHANGED wkOthers

WkSpawnLocked(c) ==
    /\ wk.pc = "run" /\ wk.callers[c].pc = "spawn_lock"
    /\ wk' = SpawnLocked(wk, c)
    /\ UNCHANGED wkOthers

WkSpawnInsert(c) ==
    /\ wk.pc = "run" /\ wk.callers[c].pc = "spawn_insert"
    /\ wk' = SpawnInsert(wk, c)
    /\ UNCHANGED wkOthers

WkSpawnNotify(c) ==
    /\ wk.pc = "run" /\ wk.callers[c].pc = "spawn_notify"
    /\ \E workers \in NotifyOne(wk.workers) : wk' = SpawnNotify(wk, c, workers)
    /\ UNCHANGED wkOthers

WkCancel(c) ==
    /\ wk.pc = "run" /\ wk.callers[c].pc = "idle"
    /\ \E handle \in Handles : wk' = Cancel(wk, c, handle)
    /\ UNCHANGED wkOthers

WkCancelFlag(c) ==
    /\ wk.pc = "run" /\ wk.callers[c].pc = "cancel_flag"
    /\ wk' = CancelFlag(wk, c)
    /\ UNCHANGED wkOthers

WkCancelStatus(c) ==
    /\ wk.pc = "run" /\ wk.callers[c].pc = "cancel_status"
    /\ wk' = CancelStatus(wk, c)
    /\ UNCHANGED wkOthers

WkCancelSet(c) ==
    /\ wk.pc = "run" /\ wk.callers[c].pc = "cancel_set"
    /\ wk' = CancelSet(wk, c)
    /\ UNCHANGED wkOthers

WkClose(c) ==
    /\ wk.pc = "run" /\ wk.callers[c].pc = "idle"
    /\ wk' = Close(wk, c)
    /\ UNCHANGED wkOthers

WkCloseNotify(c) ==
    /\ wk.pc = "run" /\ wk.callers[c].pc = "close_notify"
    /\ wk' = CloseNotify(wk, c)
    /\ UNCHANGED wkOthers

\* A caller inside a call goes on.
WkSpawnProceeds(c) == WkSpawnLocked(c) \/ WkSpawnInsert(c) \/ WkSpawnNotify(c)
WkCancelProceeds(c) == WkCancelFlag(c) \/ WkCancelStatus(c) \/ WkCancelSet(c)
WkCallerProceeds(c) == WkSpawnProceeds(c) \/ WkCancelProceeds(c) \/ WkCloseNotify(c)

\* A worker thread that is not blocked goes on.
WkWorkerProceeds(k) ==
    /\ wk.pc = "run" /\ k \in DOMAIN wk.workers /\ wk.workers[k].pc \in WorkerSteps
    /\ wk' = Did(WorkerStep(wk, k), "worker", k, NoReturn)
    /\ UNCHANGED wkOthers

\* Condvar::wait may return without a notification.
WkSpuriousWakeup(k) ==
    /\ wk.pc = "run" /\ k \in DOMAIN wk.workers /\ wk.workers[k].pc = "waiting"
    /\ wk' = Did(WorkerAt(wk, k, "lock"), "wakeup", k, NoReturn)
    /\ UNCHANGED wkOthers

WkNext ==
    \/ WkStartDummyWorkers
    \/ \E c \in Callers : WkSpawn(c)
    \/ \E c \in Callers : WkCancel(c)
    \/ \E c \in Callers : WkClose(c)
    \/ \E c \in Callers : WkCallerProceeds(c)
    \/ \E k \in Workers : WkWorkerProceeds(k)
    \/ \E k \in Workers : WkSpuriousWakeup(k)

SpecWorker == WkInit /\ [][WkNext]_vars

\* Fair scheduling: a thread that can take a step takes one. Nobody has to
\* call a function, and no wait has to return without a notification.
SpecWorkerFair ==
    /\ SpecWorker
    /\ \A c \in Callers : WF_vars(WkCallerProceeds(c))
    /\ \A k \in Workers : WF_vars(WkWorkerProceeds(k))

\* Spawning and closing only, on a runtime of MaxWorkers worker threads.
WkCloseNext ==
    \/ WkStartDummyWorkers
    \/ \E c \in Callers : WkSpawn(c)
    \/ \E c \in Callers : WkClose(c)
    \/ \E c \in Callers : WkSpawnProceeds(c)
    \/ \E c \in Callers : WkCloseNotify(c)
    \/ \E k \in Workers : WkWorkerProceeds(k)
    \/ \E k \in Workers : WkSpuriousWakeup(k)

SpecClose == WkInitThreads /\ [][WkCloseNext]_vars

SpecCloseFair ==
    /\ SpecClose
    /\ \A c \in Callers : WF_vars(WkSpawnProceeds(c) \/ WkCloseNotify(c))
    /\ \A k \in Workers : WF_vars(WkWorkerProceeds(k))


(***************************************************************************)
(* Claims about the worker runtime.                                        *)
(***************************************************************************)
\* The worker threads are running: spawned and not all gone.
Started(w) == \A k \in DOMAIN w.workers : w.workers[k].pc # "off"

\* The handles waiting in the queue.
Enqueued(w) == {w.queue[i] : i \in DOMAIN w.queue}

\* C32: a cancel of a task whose status is Queued returns true and sets the
\* status to Cancelled, and the task is never Running or Completed afterwards,
\* whatever the worker threads do in between: once a cancel that found the
\* status Queued has returned, the status is Cancelled.
C32_CancelledStaysCancelled ==
    \A handle \in wk.cancel_returned : TaskStatus(wk, handle) = <<"Cancelled">>

\* What holds instead: after such a cancel the task is never Completed, and
\* its status is Cancelled as long as no worker holds the handle.
C32_CancelledNeverCompleted ==
    \A handle \in wk.cancel_returned :
        /\ TaskStatus(wk, handle) \in {<<"Cancelled">>, <<"Running">>}
        /\ (\A k \in DOMAIN wk.workers : wk.workers[k].handle # handle)
               => TaskStatus(wk, handle) = <<"Cancelled">>

\* The other half of C32: a cancel that returns false, which is what it does
\* for a handle that is not in the task map, changes nothing.
C32_UnknownHandleChangesNothing ==
    [][(wk'.last.op = "cancel" /\ wk'.last.ret = "false") =>
            wk' = [wk EXCEPT !.last = wk'.last]]_vars

\* A cancel that found the status Queued has returned, and a worker has set
\* the status to Running since.
C32_RunningAfterCancel ==
    \E handle \in wk.cancel_returned : TaskStatus(wk, handle) = <<"Running">>

\* The task has reached its end.
Finished(handle) ==
    TaskStatus(wk, handle) \in {<<"Completed">>, <<"Cancelled">>}

\* C34: every task whose handle spawn returned is in the task map and, with
\* the worker threads running and every thread scheduled fairly, eventually
\* reaches Completed or Cancelled.
C34_SpawnedTaskFinishes ==
    /\ [](\A handle \in wk.returned : TaskStatus(wk, handle) # <<>>)
    /\ \A handle \in Handles :
          (Started(wk) /\ handle \in wk.returned) ~> Finished(handle)

\* What holds instead: the task is in the task map, and it reaches its end if
\* it is in the task map while its handle is in the queue.
C34_SpawnedTaskRegistered ==
    \A handle \in wk.returned : TaskStatus(wk, handle) # <<>>

C34_RegisteredInQueueFinishes ==
    \A handle \in Handles :
        (Started(wk) /\ handle \in DOMAIN wk.tasks /\ handle \in Enqueued(wk))
            ~> Finished(handle)

\* A worker took the handle from the queue before spawn had put the task in
\* the task map, and went on; spawn then returned the handle.
C34_HandleLost ==
    \E handle \in wk.returned :
        /\ TaskStatus(wk, handle) = <<"Queued">>
        /\ handle \notin Enqueued(wk)
        /\ \A k \in DOMAIN wk.workers : wk.workers[k].handle # handle

\* The step is the return of a spawn of caller c that was called after close
\* had set `closed`.
LateSpawnReturns(c) ==
    /\ wk'.last.op = "spawn" /\ wk'.last.who = c /\ wk'.last.ret # NoReturn
    /\ IF wk.callers[c].pc = "idle" THEN wk.closed ELSE wk.callers[c].late

\* No worker has left its loop before the runtime was closed and the queue
\* was empty.
ExitedAfterQueueDrained ==
    \A k \in DOMAIN wk.workers :
        wk.workers[k].pc = "exited" => wk.closed /\ wk.queue = <<>>

\* Once the runtime is closed, every running worker thread leaves its loop.
WorkersExit ==
    (wk.closed /\ Started(wk))
        ~> (\A k \in DOMAIN wk.workers : wk.workers[k].pc = "exited")

\* C35 as stated: after close every later spawn fails with Closed; every
\* worker thread eventually exits, and only after the handles queued at close
\* time were dequeued.
C35_LaterSpawnsClosed ==
    /\ [][\A c \in Callers : LateSpawnReturns(c) => wk'.last.ret = "Closed"]_vars
    /\ []ExitedAfterQueueDrained
    /\ WorkersExit

\* C35 as the code has it: a later spawn fails, with MainAffinityUnsupported
\* when it returns from the affinity check, which comes first, and with Closed
\* when it returns from under the queue mutex; the workers exit as stated.
C35_LaterSpawnsFail ==
    /\ [][\A c \in Callers :
            LateSpawnReturns(c) =>
                wk'.last.ret = (IF wk.callers[c].pc = "idle"
                                THEN "MainAffinityUnsupported" ELSE "Closed")]_vars
    /\ []ExitedAfterQueueDrained
    /\ WorkersExit

\* The runtime is closed, a task was completed, every worker thread has left
\* its loop and a spawn has just been refused with Closed.
C35_Witness ==
    /\ wk.closed /\ wk.last.op = "spawn" /\ wk.last.ret = "Closed"
    /\ \A k \in DOMAIN wk.workers : wk.workers[k].pc = "exited"
    /\ \E handle \in DOMAIN wk.tasks : wk.tasks[handle].status = "Completed"

\* The step is a spawn returning an error.
SpawnRejected ==
    /\ wk'.last.op = "spawn"
    /\ wk'.last.ret \in {"MainAffinityUnsupported", "Closed", "QueueFull"}

\* C36: the queue never holds more than queue_capacity handles, and a spawn
\* that is refused with MainAffinityUnsupported, Closed or QueueFull leaves
\* the queue and the task map as they are.
C36_QueueWithinCapacity ==
    /\ [](Len(wk.queue) <= QueueCapacity)
    /\ [][SpawnRejected => wk'.queue = wk.queue /\ wk'.tasks = wk.tasks]_vars

\* A spawn has just been refused with QueueFull, the queue holding
\* queue_capacity handles.
C36_Witness ==
    /\ wk.last.op = "spawn" /\ wk.last.ret = "QueueFull"
    /\ Len(wk.queue) = QueueCapacity


(***************************************************************************)
(* neovm-core: ModeRegistry, the minor modes. Vec<String> is a sequence,   *)
(* HashMap a function.                                                     *)
(***************************************************************************)
MaxBuffers == 2
BufferIds == 1..MaxBuffers
MinorModeNames == {"auto-fill-mode", "flyspell-mode"}

\* Vec::contains, Vec::retain(|m| m != mode_name)
Contains(modes, mode_name) == \E i \in DOMAIN modes : modes[i] = mode_name
Without(modes, mode_name) == SelectSeq(modes, LAMBDA m : m # mode_name)

\* ModeRegistry::new, as far as the minor modes go. `op`, `arg` and `ret` are
\* the call made last and what it returned.
MdNew ==
    [pc |-> "run", minor_modes |-> {}, buffer_minor_modes |-> <<>>,
     global_minor_modes |-> <<>>, op |-> "new", arg |-> <<>>, ret |-> "-"]

MdReturned(m, op, arg, r) == [m EXCEPT !.op = op, !.arg = arg, !.ret = r]

RegisterMinorMode(m, mode_name) ==
    [m EXCEPT !.minor_modes = @ \cup {mode_name}]

EnableMinorMode(m, buffer_id, mode_name) ==
    IF mode_name \notin m.minor_modes
    THEN [m EXCEPT !.ret = "Err"]
    ELSE LET modes == IF buffer_id \in DOMAIN m.buffer_minor_modes
                      THEN m.buffer_minor_modes[buffer_id] ELSE <<>>
         IN [m EXCEPT !.buffer_minor_modes =
                          MapInsert(@, buffer_id,
                                    IF Contains(modes, mode_name) THEN modes
                                    ELSE Append(modes, mode_name)),
                      !.ret = "Ok(())"]

DisableMinorMode(m, buffer_id, mode_name) ==
    IF buffer_id \in DOMAIN m.buffer_minor_modes
    THEN [m EXCEPT !.buffer_minor_modes[buffer_id] = Without(@, mode_name)]
    ELSE m

IsMinorModeActive(m, buffer_id, mode_name) ==
    \/ /\ buffer_id \in DOMAIN m.buffer_minor_modes
       /\ Contains(m.buffer_minor_modes[buffer_id], mode_name)
    \/ Contains(m.global_minor_modes, mode_name)

ToggleMinorMode(m, buffer_id, mode_name) ==
    IF mode_name \notin m.minor_modes
    THEN [m EXCEPT !.ret = "Err"]
    ELSE IF IsMinorModeActive(m, buffer_id, mode_name)
    THEN [DisableMinorMode(m, buffer_id, mode_name) EXCEPT !.ret = "Ok(false)"]
    ELSE \* enable_minor_mode(..)?: the mode is registered, so it is Ok
         [EnableMinorMode(m, buffer_id, mode_name) EXCEPT !.ret = "Ok(true)"]

EnableGlobalMinorMode(m, mode_name) ==
    IF mode_name \notin m.minor_modes
    THEN [m EXCEPT !.ret = "Err"]
    ELSE [m EXCEPT !.global_minor_modes =
                       IF Contains(@, mode_name) THEN @ ELSE Append(@, mode_name),
                   !.ret = "Ok(())"]

DisableGlobalMinorMode(m, mode_name) ==
    [m EXCEPT !.global_minor_modes = Without(@, mode_name)]

RemoveBuffer(m, buffer_id) ==
    [m EXCEPT !.buffer_minor_modes = MapRemove(@, buffer_id)]

MdInit ==
    /\ OldIdle /\ cg = CgIdle /\ wk = WkIdle /\ bl = BlIdle
    /\ md = MdNew

mdOthers == <<old, cg, wk, bl>>

\* The call `op` with the arguments `arg` takes the registry to `m`.
MdCall(m, op, arg) ==
    /\ md.pc = "run"
    /\ md' = [m EXCEPT !.op = op, !.arg = arg]
    /\ UNCHANGED mdOthers

MdRegisterMinorMode ==
    \E mode_name \in MinorModeNames :
        MdCall([RegisterMinorMode(md, mode_name) EXCEPT !.ret = "()"],
               "register_minor_mode", <<mode_name>>)

MdEnableMinorMode ==
    \E buffer_id \in BufferIds, mode_name \in MinorModeNames :
        MdCall(EnableMinorMode(md, buffer_id, mode_name),
               "enable_minor_mode", <<buffer_id, mode_name>>)

MdDisableMinorMode ==
    \E buffer_id \in BufferIds, mode_name \in MinorModeNames :
        MdCall([DisableMinorMode(md, buffer_id, mode_name) EXCEPT !.ret = "()"],
               "disable_minor_mode", <<buffer_id, mode_name>>)

MdToggleMinorMode ==
    \E buffer_id \in BufferIds, mode_name \in MinorModeNames :
        MdCall(ToggleMinorMode(md, buffer_id, mode_name),
               "toggle_minor_mode", <<buffer_id, mode_name>>)

MdEnableGlobalMinorMode ==
    \E mode_name \in MinorModeNames :
        MdCall(EnableGlobalMinorMode(md, mode_name),
               "enable_global_minor_mode", <<mode_name>>)

MdDisableGlobalMinorMode ==
    \E mode_name \in MinorModeNames :
        MdCall([DisableGlobalMinorMode(md, mode_name) EXCEPT !.ret = "()"],
               "disable_global_minor_mode", <<mode_name>>)

MdRemoveBuffer ==
    \E buffer_id \in BufferIds :
        MdCall([RemoveBuffer(md, buffer_id) EXCEPT !.ret = "()"],
               "remove_buffer", <<buffer_id>>)

MdNext ==
    \/ MdRegisterMinorMode
    \/ MdEnableMinorMode
    \/ MdDisableMinorMode
    \/ MdToggleMinorMode
    \/ MdEnableGlobalMinorMode
    \/ MdDisableGlobalMinorMode
    \/ MdRemoveBuffer

SpecModes == MdInit /\ [][MdNext]_vars

\* The registry but for the record of the call made last.
Registry(m) == [m EXCEPT !.op = "-", !.arg = <<>>, !.ret = "-"]

\* The step is toggle_minor_mode(buffer_id, mode_name).
Toggled(buffer_id, mode_name) ==
    md.pc = "run" /\ md'.op = "toggle_minor_mode" /\ md'.arg = <<buffer_id, mode_name>>

\* The value toggle_minor_mode returns tells whether the mode is active in
\* the buffer afterwards; for a mode that is not registered it is an error
\* and the registry is as before.
ToggleTellsActive(buffer_id, mode_name) ==
    IF mode_name \in md.minor_modes
    THEN md'.ret = (IF IsMinorModeActive(md', buffer_id, mode_name)
                    THEN "Ok(true)" ELSE "Ok(false)")
    ELSE md'.ret = "Err" /\ Registry(md') = Registry(md)

\* C33: toggle_minor_mode(b, m) returns Ok(true) exactly when m is active in b
\* afterwards and Ok(false) exactly when it is not, also when m is enabled
\* globally; for a mode that is not registered it returns Err and changes
\* nothing.
C33_ToggleTellsActive ==
    [][\A buffer_id \in BufferIds, mode_name \in MinorModeNames :
          Toggled(buffer_id, mode_name) => ToggleTellsActive(buffer_id, mode_name)]_vars

\* What holds instead: the same, for the modes that are not enabled globally.
C33_ToggleTellsActiveUnlessGlobal ==
    [][\A buffer_id \in BufferIds, mode_name \in MinorModeNames :
          (Toggled(buffer_id, mode_name) /\ ~Contains(md.global_minor_modes, mode_name))
              => ToggleTellsActive(buffer_id, mode_name)]_vars

\* toggle_minor_mode has returned Ok(false) for a mode that is active in the
\* buffer.
C33_ActiveAfterOkFalse ==
    /\ md.pc = "run" /\ md.op = "toggle_minor_mode" /\ md.ret = "Ok(false)"
    /\ IsMinorModeActive(md, md.arg[1], md.arg[2])


(***************************************************************************)
(* WgpuRenderer: the Gaussian blur over the ping-pong textures A and B.    *)
(* A texture holds a picture: the frame rendered into it (NoFrame for a    *)
(* texture never rendered to) and the blur steps applied to it since.      *)
(***************************************************************************)
MaxPasses == 3
MaxSide == 1
MaxRendered == 2
NoFrame == 0

Picture(frame) == [frame |-> frame, steps |-> <<>>]
Horizontal == "H"
Vertical == "V"

\* WgpuRenderer as far as the blur goes: the surface size, the textures (none
\* before ensure_blur_textures and after free_blur_textures) with the size
\* they were created for, and the destination. `log` lists the passes of the
\* last apply_blur_from_a, `from` is the picture A held when it was called.
BlNew ==
    [pc |-> "run", width |-> MaxSide, height |-> MaxSide,
     textures |-> FALSE, tex_width |-> 0, tex_height |-> 0,
     a |-> Picture(NoFrame), b |-> Picture(NoFrame), dest |-> Picture(NoFrame),
     rendered |-> 0, op |-> "new", passes |-> 0, log |-> <<>>,
     from |-> Picture(NoFrame)]

\* ensure_blur_textures. Creating a texture with a zero extent is a validation
\* error of wgpu, which panics.
EnsureBlurTextures(r) ==
    IF r.textures /\ r.tex_width = r.width /\ r.tex_height = r.height
    THEN r
    ELSE IF r.width = 0 \/ r.height = 0
    THEN [r EXCEPT !.pc = "panicked"]
    ELSE [r EXCEPT !.textures = TRUE, !.tex_width = r.width, !.tex_height = r.height,
                   !.a = Picture(NoFrame), !.b = Picture(NoFrame)]

\* free_blur_textures
FreeBlurTextures(r) ==
    [r EXCEPT !.textures = FALSE, !.tex_width = 0, !.tex_height = 0,
              !.a = Picture(NoFrame), !.b = Picture(NoFrame)]

\* run_blur_pass: the destination is cleared and drawn from the source, blurred
\* in one direction.
RunBlurPass(r, src, dst, direction) ==
    [r EXCEPT ![dst] = [frame |-> r[src].frame,
                        steps |-> Append(r[src].steps, direction)],
              !.log = Append(@, [src |-> src, dst |-> dst, direction |-> direction])]

\* The body of `for pass in 0..passes`.
BlurPass(r, pass, passes) ==
    LET is_last == pass = passes - 1
        h_src == IF pass % 2 = 0 THEN "a" ELSE "b"
        h_dst == IF pass % 2 = 0 THEN "b" ELSE "a"
        v_src == IF pass % 2 = 0 THEN "b" ELSE "a"
        v_dst == IF is_last THEN "dest" ELSE IF pass % 2 = 0 THEN "a" ELSE "b"
    IN RunBlurPass(RunBlurPass(r, h_src, h_dst, Horizontal), v_src, v_dst, Vertical)

RECURSIVE BlurPasses(_, _, _)
BlurPasses(r, pass, passes) ==
    IF pass >= passes THEN r
    ELSE BlurPasses(BlurPass(r, pass, passes), pass + 1, passes)

\* apply_blur_from_a(dest_view, passes, radius)
ApplyBlurFromA(r, passes) ==
    IF passes = 0 \/ r.width = 0 \/ r.height = 0
    THEN r
    ELSE IF ~r.textures
    THEN [r EXCEPT !.pc = "panicked"]   \* expect("blur textures not initialized")
    ELSE BlurPasses(r, 0, passes)

BlInit ==
    /\ OldIdle /\ cg = CgIdle /\ wk = WkIdle /\ md = MdIdle
    /\ bl = BlNew

blOthers == <<old, cg, wk, md>>

BlCalled(r, op, passes) == [r EXCEPT !.op = op, !.passes = passes]
\* The record of the call before starts empty.
BlCalling == [bl EXCEPT !.log = <<>>, !.from = bl.a]

\* The surface is resized.
BlResize ==
    /\ bl.pc = "run"
    /\ \E width \in 0..MaxSide, height \in 0..MaxSide :
           bl' = BlCalled([BlCalling EXCEPT !.width = width, !.height = height],
                          "resize", 0)
    /\ UNCHANGED blOthers

BlEnsureBlurTextures ==
    /\ bl.pc = "run"
    /\ bl' = BlCalled(EnsureBlurTextures(BlCalling), "ensure_blur_textures", 0)
    /\ UNCHANGED blOthers

BlFreeBlurTextures ==
    /\ bl.pc = "run"
    /\ bl' = BlCalled(FreeBlurTextures(BlCalling), "free_blur_textures", 0)
    /\ UNCHANGED blOthers

\* The caller renders the next frame into blur_render_target_view().
BlRender ==
    /\ bl.pc = "run" /\ bl.textures /\ bl.rendered < MaxRendered
    /\ bl' = BlCalled([BlCalling EXCEPT !.rendered = @ + 1,
                                        !.a = Picture(bl.rendered + 1)],
                      "render", 0)
    /\ UNCHANGED blOthers

\* The picture in A is one just rendered, or that of a texture never used:
\* "Assumes content has already been rendered to blur_texture_a".
BlApplyBlurFromA ==
    /\ bl.pc = "run" /\ bl.a.steps = <<>>
    /\ \E passes \in 0..MaxPasses :
           bl' = BlCalled(ApplyBlurFromA(BlCalling, passes), "apply_blur_from_a", passes)
    /\ UNCHANGED blOthers

BlNext ==
    \/ BlResize
    \/ BlEnsureBlurTextures
    \/ BlFreeBlurTextures
    \/ BlRender
    \/ BlApplyBlurFromA

SpecBlur == BlInit /\ [][BlNext]_vars

\* apply_blur_from_a has run its loop: passes >= 1 on a surface that is not
\* empty, the textures being there.
Blurred == bl.pc = "run" /\ bl.op = "apply_blur_from_a" /\ bl.log # <<>>

\* Every pass reads what the pass before it wrote, the first one reads A.
ReadsPrecedingPass ==
    /\ bl.log[1].src = "a"
    /\ \A i \in 2..Len(bl.log) : bl.log[i].src = bl.log[i - 1].dst

\* No pass reads the texture it writes, and the destination is written by the
\* last pass only, a vertical one.
PingPong ==
    /\ \A i \in DOMAIN bl.log : bl.log[i].src # bl.log[i].dst
    /\ \A i \in DOMAIN bl.log : bl.log[i].dst = "dest" <=> i = Len(bl.log)
    /\ bl.log[Len(bl.log)].direction = Vertical

\* The destination holds the picture A held, with 2 * passes blur steps.
DestinationBlurred ==
    /\ bl.dest.frame = bl.from.frame
    /\ Len(bl.dest.steps) = Len(bl.from.steps) + 2 * bl.passes

\* C39: in apply_blur_from_a with passes >= 1 every pass reads the texture the
\* preceding pass wrote (A for the first), no pass reads and writes one
\* texture, only the last vertical pass writes the destination, and so the
\* destination holds the source with 2 * passes blur steps applied.
C39_PassesChain ==
    Blurred => ReadsPrecedingPass /\ PingPong /\ DestinationBlurred

\* What holds instead: all of it for one pass; for more, the ping-pong and the
\* single write of the destination only.
C39_OnePassChains ==
    Blurred =>
        /\ PingPong
        /\ bl.passes = 1 => ReadsPrecedingPass /\ DestinationBlurred

\* Two passes were asked for and the destination holds three blur steps.
C39_StepLost ==
    /\ Blurred /\ bl.passes = 2 /\ bl.from.frame # NoFrame
    /\ Len(bl.dest.steps) = Len(bl.from.steps) + 3

====
